---- MODULE Spec2Model ----
(***************************************************************************)
(* Battle core of homeland-bloc/atamne: BattleSystem (js/battlesystem.js), *)
(* GameCharacter and the tables of js/config.js.                           *)
(*                                                                         *)
(* Numbers.  hp and damage are JavaScript doubles obtained from integers   *)
(* by multiplying with 0.5, 0.75, 1.0, 1.25, 1.5 and 0.5 (splash).  All    *)
(* these products are exact multiples of 1/8, so hp and damage are held    *)
(* here in eighths of a point (Pt(120) is 120 points), effectiveness in    *)
(* quarters (6 is 1.5) and the splash multiplier in halves (1 is 0.5).     *)
(* Speeds and action bars are plain integers.                              *)
(*                                                                         *)
(* Identities.  A character id is <<template, n>>: n = 0 is the template   *)
(* id itself, n > 0 the id with the suffix "-E<n>".  getCharId appends     *)
(* "-P" or "-E"; it is the triple <<template, n, "P" | "E">>.  A combatant *)
(* object is named by its place <<"P" | "E", index>> in its team list.     *)
(***************************************************************************)
EXTENDS Integers, Sequences, FiniteSets, TLC

VARIABLES
    characters,            \* BreedingGame.characters: template id -> persistent record
    playerTeam,            \* BattleSystem.playerTeam
    enemyTeam,             \* BattleSystem.enemyTeam
    turnQueue,             \* BattleSystem.turnQueue (display slice)
    battlePhase,           \* "setup", "battle", "ended"
    actionBars,            \* BattleSystem.actionBars: charId -> number
    turnHistory,           \* BattleSystem.turnHistory
    upcomingTurns,         \* BattleSystem.upcomingTurns
    isProcessingTurn,      \* BattleSystem.isProcessingTurn
    attackButtonsDisabled, \* BattleSystem.attackButtonsDisabled
    pc,                    \* position of the processTurn call and of its caller
    pending,               \* turnResults of the processTurn call waiting at its await
    lastCall,              \* what the most recent call of the public interface returned
    difficulty,            \* BattleAI.difficulty
    thinkingTimer,         \* BattleAI.thinkingTimer: what the pending callback captured
    aiResult,              \* what BattleAI.processAITurn resolves with, until taken
    aiTurnTimers,          \* pending "setTimeout(() => this.processAITurn())" of BattleControls
    endTimers              \* pending return-to-setup timers of BattleDisplay.handleBattleEnd

vars == <<characters, playerTeam, enemyTeam, turnQueue, battlePhase, actionBars,
          turnHistory, upcomingTurns, isProcessingTurn, attackButtonsDisabled,
          pc, pending, lastCall, difficulty, thinkingTimer, aiResult,
          aiTurnTimers, endTimers>>

\* the timers nobody keeps a handle of: how many were set since the last
\* return to the team setup (fresh) and how many before it (stale)
timerVars == <<aiTurnTimers, endTimers>>

\* the fields of BattleAI and the value its promise holds
aiVars == <<difficulty, thinkingTimer, aiResult>>

(***************************************************************************)
(* Bounds of the exploration.                                              *)
(***************************************************************************)
\* nextTurn is not called once turnHistory holds this many entries
MaxTurns == 16
\* while turnHistory is shorter than this, every legal attack and target
\* (and the skipped turn, and the missing target) is tried; later turns
\* are played on the first living opponent, with the first attack option
\* after an even number of turns and the second after an odd number
FreeTurns == 1
\* of each kind of timer set without keeping its handle, at most this many
\* fresh ones and this many stale ones are followed; a further one is not
MaxTimers == 1

(***************************************************************************)
(* config.js                                                               *)
(***************************************************************************)
GENES == <<"Red", "Orange", "Yellow", "Green", "Blue", "Purple">>

Pt(n) == 8 * n

\* the table with the two entries of Purple against Red and Orange exchanged
TYPE_EFFECTIVENESS_PurpleExchanged ==
    [Red    |-> [Orange |-> 6, Yellow |-> 5, Purple |-> 2, Blue   |-> 3],
     Orange |-> [Yellow |-> 6, Green  |-> 5, Red    |-> 2, Purple |-> 3],
     Yellow |-> [Green  |-> 6, Blue   |-> 5, Orange |-> 2, Red    |-> 3],
     Green  |-> [Blue   |-> 6, Purple |-> 5, Yellow |-> 2, Orange |-> 3],
     Blue   |-> [Purple |-> 6, Red    |-> 5, Green  |-> 2, Yellow |-> 3],
     Purple |-> [Red    |-> 5, Orange |-> 6, Blue   |-> 2, Green  |-> 3]]

\* multipliers in quarters: 1.5 -> 6, 1.25 -> 5, 0.75 -> 3, 0.5 -> 2
TYPE_EFFECTIVENESS ==
    [Red    |-> [Orange |-> 6, Yellow |-> 5, Purple |-> 2, Blue   |-> 3],
     Orange |-> [Yellow |-> 6, Green  |-> 5, Red    |-> 2, Purple |-> 3],
     Yellow |-> [Green  |-> 6, Blue   |-> 5, Orange |-> 2, Red    |-> 3],
     Green  |-> [Blue   |-> 6, Purple |-> 5, Yellow |-> 2, Orange |-> 3],
     Blue   |-> [Purple |-> 6, Red    |-> 5, Green  |-> 2, Yellow |-> 3],
     Purple |-> [Red    |-> 6, Orange |-> 5, Blue   |-> 2, Green  |-> 3]]

\* <<hp, attack, speed>> in points
CHARACTER_STATS ==
    ( <<"Red">>    :> <<120, 120, 40>> ) @@
    ( <<"Orange">> :> <<240, 80, 40>> ) @@
    ( <<"Yellow">> :> <<360, 40, 40>> ) @@
    ( <<"Green">>  :> <<240, 40, 80>> ) @@
    ( <<"Blue">>   :> <<120, 40, 120>> ) @@
    ( <<"Purple">> :> <<120, 80, 80>> ) @@
    ( <<"Red", "Red">>       :> <<144, 104, 48>> ) @@
    ( <<"Orange", "Orange">> :> <<216, 72, 56>> ) @@
    ( <<"Yellow", "Yellow">> :> <<312, 48, 48>> ) @@
    ( <<"Green", "Green">>   :> <<216, 56, 72>> ) @@
    ( <<"Blue", "Blue">>     :> <<144, 48, 104>> ) @@
    ( <<"Purple", "Purple">> :> <<168, 72, 72>> ) @@
    ( <<"Red", "Orange">> :> <<216, 88, 40>> ) @@
    ( <<"Red", "Yellow">> :> <<300, 60, 40>> ) @@
    ( <<"Red", "Green">>  :> <<216, 56, 72>> ) @@
    ( <<"Red", "Blue">>   :> <<120, 60, 100>> ) @@
    ( <<"Red", "Purple">> :> <<120, 88, 72>> ) @@
    ( <<"Orange", "Red">>    :> <<156, 108, 40>> ) @@
    ( <<"Orange", "Yellow">> :> <<324, 52, 40>> ) @@
    ( <<"Orange", "Green">>  :> <<240, 48, 72>> ) @@
    ( <<"Orange", "Blue">>   :> <<156, 52, 96>> ) @@
    ( <<"Orange", "Purple">> :> <<144, 80, 72>> ) @@
    ( <<"Yellow", "Red">>    :> <<180, 100, 40>> ) @@
    ( <<"Yellow", "Orange">> :> <<264, 72, 40>> ) @@
    ( <<"Yellow", "Green">>  :> <<264, 40, 72>> ) @@
    ( <<"Yellow", "Blue">>   :> <<180, 40, 100>> ) @@
    ( <<"Yellow", "Purple">> :> <<168, 72, 72>> ) @@
    ( <<"Green", "Red">>    :> <<156, 96, 52>> ) @@
    ( <<"Green", "Orange">> :> <<240, 72, 48>> ) @@
    ( <<"Green", "Yellow">> :> <<324, 40, 52>> ) @@
    ( <<"Green", "Blue">>   :> <<156, 40, 108>> ) @@
    ( <<"Green", "Purple">> :> <<144, 72, 80>> ) @@
    ( <<"Blue", "Red">>    :> <<120, 100, 60>> ) @@
    ( <<"Blue", "Orange">> :> <<216, 72, 56>> ) @@
    ( <<"Blue", "Yellow">> :> <<300, 40, 60>> ) @@
    ( <<"Blue", "Green">>  :> <<216, 40, 88>> ) @@
    ( <<"Blue", "Purple">> :> <<120, 72, 88>> ) @@
    ( <<"Purple", "Red">>    :> <<120, 108, 52>> ) @@
    ( <<"Purple", "Orange">> :> <<216, 80, 48>> ) @@
    ( <<"Purple", "Yellow">> :> <<288, 52, 52>> ) @@
    ( <<"Purple", "Green">>  :> <<216, 48, 80>> ) @@
    ( <<"Purple", "Blue">>   :> <<120, 52, 108>> )

ACTION_THRESHOLD == 1000
TEAM_SIZE == 3
\* in halves: 0.5 -> 1
SPLASH_DAMAGE_MULTIPLIER == 1

\* createTurnQueue, nextTurn and updateTurnQueue ask for this many turns
TurnsAhead == 20
\* length of the display slice
DisplayLen == 6

(***************************************************************************)
(* GameCharacter                                                           *)
(***************************************************************************)
NoChar == <<>>

\* getStatDistribution: the table entry, or the fallback
getStatDistribution(template) ==
    IF template \in DOMAIN CHARACTER_STATS THEN CHARACTER_STATS[template]
    ELSE <<80, 80, 80>>

\* generateStats with the attack one point off the table
generateStats_AttackPlusOne(template) ==
    LET d == getStatDistribution(template)
    IN  [hp |-> Pt(d[1]), maxHp |-> Pt(d[1]), attack |-> d[2] + 1, speed |-> d[3]]

\* generateStats
generateStats(template) ==
    LET d == getStatDistribution(template)
    IN  [hp |-> Pt(d[1]), maxHp |-> Pt(d[1]), attack |-> d[2], speed |-> d[3]]

\* new GameCharacter(id, genes, unlocked); isPlayer is null until battle setup.
\* The stats are looked up under the id the object is constructed with.
GameCharacter(id, genes, unlocked) ==
    [id |-> id, genes |-> genes, unlocked |-> unlocked,
     stats |-> generateStats(id[1]), isPlayer |-> "null"]

\* clone: a fresh object built from id and genes (stats come from the table)
clone(c) == [GameCharacter(c.id, c.genes, c.unlocked) EXCEPT !.isPlayer = c.isPlayer]

resetForBattle(c) == [c EXCEPT !.stats.hp = c.stats.maxHp]

isAlive(c) == c.stats.hp > 0

\* isPlayer is "null", "true" or "false"; only "true" is truthy
IsPlayer(c) == c.isPlayer = "true"

\* getAttackGenes that gives the splash to every creature with two genes
getAttackGenes_SplashForDoubles(c) ==
    IF Len(c.genes) = 1
    THEN << [gene |-> c.genes[1], type |-> "single"],
            [gene |-> "Neutral",  type |-> "single"] >>
    ELSE << [gene |-> c.genes[1], type |-> "single"],
            [gene |-> c.genes[2], type |-> "splash"] >>

\* getAttackGenes: the two attack options of a creature
getAttackGenes(c) ==
    IF Len(c.genes) = 1
    THEN << [gene |-> c.genes[1], type |-> "single"],
            [gene |-> "Neutral",  type |-> "single"] >>
    ELSE IF c.genes[1] = c.genes[2]
    THEN << [gene |-> c.genes[1], type |-> "single"],
            [gene |-> c.genes[1], type |-> "splash"] >>
    ELSE << [gene |-> c.genes[1], type |-> "single"],
            [gene |-> c.genes[2], type |-> "single"] >>

\* getEffectiveness that defends with the last gene of the defender
getEffectiveness_LastGene(attackGene, defender) ==
    IF attackGene = "Neutral" THEN 4
    ELSE LET defendingGene == defender.genes[Len(defender.genes)]
         IN  IF /\ attackGene \in DOMAIN TYPE_EFFECTIVENESS
                /\ defendingGene \in DOMAIN TYPE_EFFECTIVENESS[attackGene]
             THEN TYPE_EFFECTIVENESS[attackGene][defendingGene]
             ELSE 4

\* in quarters; a gene pair without table entry gives 1.0
getEffectiveness(attackGene, defender) ==
    IF attackGene = "Neutral" THEN 4
    ELSE LET defendingGene == defender.genes[1]
         IN  IF /\ attackGene \in DOMAIN TYPE_EFFECTIVENESS
                /\ defendingGene \in DOMAIN TYPE_EFFECTIVENESS[attackGene]
             THEN TYPE_EFFECTIVENESS[attackGene][defendingGene]
             ELSE 4

\* a damage formula under which a resisted attack does nothing
calculateDamage_ResistedIsNothing(attacker, attackGene, defender) ==
    IF getEffectiveness(attackGene, defender) < 4 THEN 0
    ELSE attacker.stats.attack * getEffectiveness(attackGene, defender) * 2

\* attack (points) x effectiveness (quarters), in eighths of a point
calculateDamage(attacker, attackGene, defender) ==
    attacker.stats.attack * getEffectiveness(attackGene, defender) * 2

Max(a, b) == IF a >= b THEN a ELSE b
Min(a, b) == IF a <= b THEN a ELSE b

\* takeDamage without the floor at 0
takeDamage_NoFloor(c, damage) == [c EXCEPT !.stats.hp = c.stats.hp - damage]

takeDamage(c, damage) == [c EXCEPT !.stats.hp = Max(0, c.stats.hp - damage)]

(***************************************************************************)
(* BattleSystem: scheduling                                                *)
(***************************************************************************)
\* the combatant object at a place of the team lists
Char(pt, et, r) == IF r[1] = "P" THEN pt[r[2]] ELSE et[r[2]]

\* [...playerTeam, ...enemyTeam] as places
AllRefs(pt, et) ==
    [i \in 1..(Len(pt) + Len(et)) |->
        IF i <= Len(pt) THEN <<"P", i>> ELSE <<"E", i - Len(pt)>>]

getCharId(c) == <<c.id[1], c.id[2], IF IsPlayer(c) THEN "P" ELSE "E">>

\* what the simulation reads of a living character: its place, its bar key,
\* whether actionBars has that key, its speed, its team and team index
SimChar(pt, et, bars, r) ==
    LET c == Char(pt, et, r)
    IN  [char |-> r, key |-> getCharId(c), hasBar |-> getCharId(c) \in DOMAIN bars,
         speed |-> c.stats.speed, isPlayer |-> IsPlayer(c), index |-> r[2] - 1]

\* the comparator that asks for the lower speed before it looks at the bars
compareReady_SpeedBeforeBar(sim, a, b) ==
    LET aBar == sim[a.key]
        bBar == sim[b.key]
    IN  IF a.speed # b.speed THEN a.speed - b.speed
        ELSE IF aBar # bBar THEN bBar - aBar
        ELSE IF a.isPlayer # b.isPlayer THEN (IF a.isPlayer THEN -1 ELSE 1)
        ELSE a.index - b.index

\* the comparator with the speed rule turned round (faster first)
compareReady_FasterFirst(sim, a, b) ==
    LET aBar == sim[a.key]
        bBar == sim[b.key]
    IN  IF aBar # bBar THEN bBar - aBar
        ELSE IF a.speed # b.speed THEN b.speed - a.speed
        ELSE IF a.isPlayer # b.isPlayer THEN (IF a.isPlayer THEN -1 ELSE 1)
        ELSE a.index - b.index

\* the comparator of readyChars.sort
compareReady(sim, a, b) ==
    LET aBar == sim[a.key]
        bBar == sim[b.key]
    IN  IF aBar # bBar THEN bBar - aBar
        ELSE IF a.speed # b.speed THEN a.speed - b.speed
        ELSE IF a.isPlayer # b.isPlayer THEN (IF a.isPlayer THEN -1 ELSE 1)
        ELSE a.index - b.index

\* Array.prototype.sort is stable: x goes behind every element that does
\* not compare greater than it
RECURSIVE InsertReady(_, _, _)
InsertReady(sim, x, sorted) ==
    IF sorted = <<>> THEN <<x>>
    ELSE LET last == sorted[Len(sorted)]
         IN  IF compareReady(sim, last, x) > 0
             THEN Append(InsertReady(sim, x, SubSeq(sorted, 1, Len(sorted) - 1)), last)
             ELSE Append(sorted, x)

RECURSIVE SortReady(_, _, _)
SortReady(sim, ready, sorted) ==
    IF ready = <<>> THEN sorted
    ELSE SortReady(sim, Tail(ready), InsertReady(sim, Head(ready), sorted))

\* allCharacters.forEach, for n ticks in a row: every character that has a
\* bar adds its speed to it once a tick
RECURSIVE AddSpeeds(_, _, _)
AddSpeeds(chars, sim, n) ==
    IF chars = <<>> THEN sim
    ELSE LET c == Head(chars)
         IN  AddSpeeds(Tail(chars),
                 IF c.hasBar THEN [sim EXCEPT ![c.key] = @ + n * c.speed] ELSE sim, n)

\* the number of iterations of the while loop, counted from bars sim, that
\* find readyChars empty: one less than the least number of additions that
\* takes some bar to the threshold
IdleTicks(chars, sim) ==
    LET need == { (ACTION_THRESHOLD - sim[chars[i].key] + chars[i].speed - 1)
                      \div chars[i].speed :
                  i \in { j \in 1..Len(chars) : chars[j].hasBar } }
    IN  IF need = {} THEN 0
        ELSE Max(0, (CHOOSE n \in need : \A m \in need : n <= m) - 1)

\* readyChars.forEach that empties the bar of a ready character
RECURSIVE ConsumeReady_ResetBar(_, _, _, _, _)
ConsumeReady_ResetBar(ready, sorting, sim, turns, tick) ==
    IF ready = <<>> THEN [sim |-> sim, turns |-> turns]
    ELSE LET c    == Head(ready)
             next == [sim EXCEPT ![c.key] = 0]
         IN  ConsumeReady_ResetBar(Tail(ready), sorting, next,
                 Append(turns, [char |-> c.char, tick |-> tick, bar |-> sorting[c.key],
                                speed |-> c.speed, after |-> next[c.key]]),
                 tick)

\* readyChars.forEach: consume one threshold and push the turn; a turn is
\* noted with the tick it was produced in, the bar value it was sorted by
\* and the bar value right after the consumption
RECURSIVE ConsumeReady(_, _, _, _, _)
ConsumeReady(ready, sorting, sim, turns, tick) ==
    IF ready = <<>> THEN [sim |-> sim, turns |-> turns]
    ELSE LET c    == Head(ready)
             next == [sim EXCEPT ![c.key] = @ - ACTION_THRESHOLD]
         IN  ConsumeReady(Tail(ready), sorting, next,
                 Append(turns, [char |-> c.char, tick |-> tick, bar |-> sorting[c.key],
                                speed |-> c.speed, after |-> next[c.key]]),
                 tick)

\* the while loop of calculateUpcomingTurns; the iterations that find nobody
\* ready only add the speeds, so a run of them is taken in one step together
\* with the iteration that follows it
RECURSIVE SimulateTicks(_, _, _, _, _)
SimulateTicks(chars, sim, turns, tick, numberOfTurns) ==
    IF Len(turns) >= numberOfTurns THEN turns
    ELSE LET idle  == IdleTicks(chars, sim)
             inc   == AddSpeeds(chars, sim, idle + 1)
             ready == SelectSeq(chars, LAMBDA c : c.hasBar /\ inc[c.key] >= ACTION_THRESHOLD)
         IN  IF ready = <<>>
             THEN SimulateTicks(chars, inc, turns, tick + idle + 1, numberOfTurns)
             ELSE LET done == ConsumeReady(SortReady(inc, ready, <<>>), inc, inc, turns,
                                           tick + idle)
                  IN  SimulateTicks(chars, done.sim, done.turns, tick + idle + 1,
                                    numberOfTurns)

LivingRefs(pt, et) == SelectSeq(AllRefs(pt, et), LAMBDA r : isAlive(Char(pt, et, r)))

\* calculateUpcomingTurns with the test of its early return inverted
TurnRecords_InvertedReturn(pt, et, bars, numberOfTurns) ==
    LET living        == LivingRefs(pt, et)
        allCharacters == [i \in 1..Len(living) |-> SimChar(pt, et, bars, living[i])]
    IN  IF Len(allCharacters) # 0 THEN <<>>
        ELSE SimulateTicks(allCharacters, bars, <<>>, 1, 0)

\* calculateUpcomingTurns with its bookkeeping: the turns as records
TurnRecords(pt, et, bars, numberOfTurns) ==
    LET living        == LivingRefs(pt, et)
        allCharacters == [i \in 1..Len(living) |-> SimChar(pt, et, bars, living[i])]
    IN  IF Len(allCharacters) = 0 THEN <<>>
        ELSE SimulateTicks(allCharacters, bars, <<>>, 1, numberOfTurns)

\* calculateUpcomingTurns: the new value of upcomingTurns
calculateUpcomingTurns(pt, et, bars, numberOfTurns) ==
    LET recs == TurnRecords(pt, et, bars, numberOfTurns)
    IN  [i \in 1..Len(recs) |-> recs[i].char]

DisplaySlice(turns) == SubSeq(turns, 1, Min(DisplayLen, Len(turns)))

getCurrentCharacter(turns) == IF Len(turns) = 0 THEN NoChar ELSE turns[1]

(***************************************************************************)
(* BattleSystem: operations on the battle state                            *)
(***************************************************************************)
NoTarget == <<>>

NoResults == [type |-> "none", attacker |-> NoChar, attackGene |-> "", targets |-> <<>>]

NoCall == [op |-> "none", success |-> FALSE, reason |-> "", battleEnded |-> FALSE,
           winner |-> "", turnResults |-> NoResults]

\* updateTurnQueue that recomputes the buffer from bars at 0 instead of the
\* stored bars
updateTurnQueue_FreshBars(pt, et, bars) ==
    LET all      == AllRefs(pt, et)
        defeated == {getCharId(Char(pt, et, all[i])) :
                        i \in {j \in 1..Len(all) : ~isAlive(Char(pt, et, all[j]))}}
        kept     == [k \in (DOMAIN bars) \ defeated |-> bars[k]]
        turns    == calculateUpcomingTurns(pt, et, [k \in DOMAIN kept |-> 0], TurnsAhead)
    IN  [actionBars |-> kept, upcomingTurns |-> turns, turnQueue |-> DisplaySlice(turns)]

\* updateTurnQueue that also moves the buffer on by one turn
updateTurnQueue_Advances(pt, et, bars) ==
    LET all      == AllRefs(pt, et)
        defeated == {getCharId(Char(pt, et, all[i])) :
                        i \in {j \in 1..Len(all) : ~isAlive(Char(pt, et, all[j]))}}
        kept     == [k \in (DOMAIN bars) \ defeated |-> bars[k]]
        all20    == calculateUpcomingTurns(pt, et, kept, TurnsAhead)
        turns    == IF all20 = <<>> THEN all20 ELSE Tail(all20)
    IN  [actionBars |-> kept, upcomingTurns |-> turns, turnQueue |-> DisplaySlice(turns)]

\* updateTurnQueue that drops the bars but keeps the old buffer
updateTurnQueue_NoRecalc(pt, et, bars) ==
    LET all      == AllRefs(pt, et)
        defeated == {getCharId(Char(pt, et, all[i])) :
                        i \in {j \in 1..Len(all) : ~isAlive(Char(pt, et, all[j]))}}
        kept     == [k \in (DOMAIN bars) \ defeated |-> bars[k]]
    IN  [actionBars |-> kept, upcomingTurns |-> upcomingTurns, turnQueue |-> turnQueue]

\* updateTurnQueue that restarts the survivors from 0
updateTurnQueue_ResetBars(pt, et, bars) ==
    LET all      == AllRefs(pt, et)
        defeated == {getCharId(Char(pt, et, all[i])) :
                        i \in {j \in 1..Len(all) : ~isAlive(Char(pt, et, all[j]))}}
        kept     == [k \in (DOMAIN bars) \ defeated |-> 0]
        turns    == calculateUpcomingTurns(pt, et, kept, TurnsAhead)
    IN  [actionBars |-> kept, upcomingTurns |-> turns, turnQueue |-> DisplaySlice(turns)]

\* updateTurnQueue: drop the bars of the defeated, recompute buffer and slice
updateTurnQueue(pt, et, bars) ==
    LET all      == AllRefs(pt, et)
        defeated == {getCharId(Char(pt, et, all[i])) :
                        i \in {j \in 1..Len(all) : ~isAlive(Char(pt, et, all[j]))}}
        kept     == [k \in (DOMAIN bars) \ defeated |-> bars[k]]
        turns    == calculateUpcomingTurns(pt, et, kept, TurnsAhead)
    IN  [actionBars |-> kept, upcomingTurns |-> turns, turnQueue |-> DisplaySlice(turns)]

\* createTurnQueue that computes only the turns of the display slice
createTurnQueue_ShortWindow(pt, et) ==
    LET all   == LivingRefs(pt, et)
        bars  == [k \in {getCharId(Char(pt, et, all[i])) : i \in 1..Len(all)} |-> 0]
        turns == calculateUpcomingTurns(pt, et, bars, DisplayLen)
    IN  [actionBars |-> bars, upcomingTurns |-> turns, turnQueue |-> DisplaySlice(turns)]

\* createTurnQueue that gives a bar to the player team only
createTurnQueue_PlayersOnly(pt, et) ==
    LET all   == LivingRefs(pt, et)
        bars  == [k \in {getCharId(Char(pt, et, all[i])) :
                            i \in {j \in 1..Len(all) : all[j][1] = "P"}} |-> 0]
        turns == calculateUpcomingTurns(pt, et, bars, TurnsAhead)
    IN  [actionBars |-> bars, upcomingTurns |-> turns, turnQueue |-> DisplaySlice(turns)]

\* createTurnQueue: bars of the living at 0, first window, display slice
createTurnQueue(pt, et) ==
    LET all   == LivingRefs(pt, et)
        bars  == [k \in {getCharId(Char(pt, et, all[i])) : i \in 1..Len(all)} |-> 0]
        turns == calculateUpcomingTurns(pt, et, bars, TurnsAhead)
    IN  [actionBars |-> bars, upcomingTurns |-> turns, turnQueue |-> DisplaySlice(turns)]

\* the team lists with the character at place r replaced
WithChar(pt, et, r, c) ==
    IF r[1] = "P" THEN [pt |-> [pt EXCEPT ![r[2]] = c], et |-> et]
    ELSE [pt |-> pt, et |-> [et EXCEPT ![r[2]] = c]]

\* processSingleAttack that reports the hp the target lost instead of the
\* damage dealt
processSingleAttack_ReportsHpLost(pt, et, a, attackGene, t) ==
    LET attacker      == Char(pt, et, a)
        target        == Char(pt, et, t)
        finalDamage   == calculateDamage(attacker, attackGene, target)
        effectiveness == getEffectiveness(attackGene, target)
        hit           == takeDamage(target, finalDamage)
        wasDefeated   == hit.stats.hp = 0
        teams         == WithChar(pt, et, t, hit)
    IN  [pt |-> teams.pt, et |-> teams.et, wasDefeated |-> wasDefeated,
         result |-> [type |-> "single", attacker |-> a, attackGene |-> attackGene,
                     targets |-> << [target |-> t,
                                     damage |-> Min(finalDamage, target.stats.hp),
                                     effectiveness |-> effectiveness,
                                     defeated |-> wasDefeated,
                                     hpBefore |-> target.stats.hp] >>]]

\* processSingleAttack on a given target: teams, result record, wasDefeated.
\* Each hit of a result record also notes the hp the target had before it.
processSingleAttack(pt, et, a, attackGene, t) ==
    LET attacker      == Char(pt, et, a)
        target        == Char(pt, et, t)
        finalDamage   == calculateDamage(attacker, attackGene, target)
        effectiveness == getEffectiveness(attackGene, target)
        hit           == takeDamage(target, finalDamage)
        wasDefeated   == hit.stats.hp = 0
        teams         == WithChar(pt, et, t, hit)
    IN  [pt |-> teams.pt, et |-> teams.et, wasDefeated |-> wasDefeated,
         result |-> [type |-> "single", attacker |-> a, attackGene |-> attackGene,
                     targets |-> << [target |-> t, damage |-> finalDamage,
                                     effectiveness |-> effectiveness,
                                     defeated |-> wasDefeated,
                                     hpBefore |-> target.stats.hp] >>]]

\* the living members of the team opposite to the character at place a
LivingOpponents(pt, et, a) ==
    IF IsPlayer(Char(pt, et, a))
    THEN SelectSeq([i \in 1..Len(et) |-> <<"E", i>>], LAMBDA r : isAlive(Char(pt, et, r)))
    ELSE SelectSeq([i \in 1..Len(pt) |-> <<"P", i>>], LAMBDA r : isAlive(Char(pt, et, r)))

\* the for loop of processSplashAttack without the splash multiplier
RECURSIVE SplashLoop_FullDamage(_, _, _, _, _, _)
SplashLoop_FullDamage(pt, et, a, attackGene, targets, hits) ==
    IF targets = <<>> THEN [pt |-> pt, et |-> et, hits |-> hits]
    ELSE LET t             == Head(targets)
             attacker      == Char(pt, et, a)
             target        == Char(pt, et, t)
             singleDamage  == calculateDamage(attacker, attackGene, target)
             effectiveness == getEffectiveness(attackGene, target)
             hit           == takeDamage(target, singleDamage)
             teams         == WithChar(pt, et, t, hit)
         IN  SplashLoop_FullDamage(teams.pt, teams.et, a, attackGene, Tail(targets),
                 Append(hits, [target |-> t, damage |-> singleDamage,
                               effectiveness |-> effectiveness,
                               defeated |-> hit.stats.hp = 0,
                               hpBefore |-> target.stats.hp]))

\* the for loop of processSplashAttack
RECURSIVE SplashLoop(_, _, _, _, _, _)
SplashLoop(pt, et, a, attackGene, targets, hits) ==
    IF targets = <<>> THEN [pt |-> pt, et |-> et, hits |-> hits]
    ELSE LET t             == Head(targets)
             attacker      == Char(pt, et, a)
             target        == Char(pt, et, t)
             singleDamage  == calculateDamage(attacker, attackGene, target)
             splashDamage  == (singleDamage * SPLASH_DAMAGE_MULTIPLIER) \div 2
             effectiveness == getEffectiveness(attackGene, target)
             hit           == takeDamage(target, splashDamage)
             teams         == WithChar(pt, et, t, hit)
         IN  SplashLoop(teams.pt, teams.et, a, attackGene, Tail(targets),
                 Append(hits, [target |-> t, damage |-> splashDamage,
                               effectiveness |-> effectiveness,
                               defeated |-> hit.stats.hp = 0,
                               hpBefore |-> target.stats.hp]))

\* processSplashAttack that strikes the opposing team without asking who is
\* alive
processSplashAttack_WholeTeam(pt, et, a, attackGene) ==
    LET opposing == IF IsPlayer(Char(pt, et, a))
                    THEN [i \in 1..Len(et) |-> <<"E", i>>]
                    ELSE [i \in 1..Len(pt) |-> <<"P", i>>]
        targets  == SubSeq(opposing, 1, Min(3, Len(opposing)))
        done     == SplashLoop(pt, et, a, attackGene, targets, <<>>)
    IN  [pt |-> done.pt, et |-> done.et,
         result |-> [type |-> "splash", attacker |-> a, attackGene |-> attackGene,
                     targets |-> done.hits]]

\* processSplashAttack: the first three living opponents are struck in turn
processSplashAttack(pt, et, a, attackGene) ==
    LET living  == LivingOpponents(pt, et, a)
        targets == SubSeq(living, 1, Min(3, Len(living)))
        done    == SplashLoop(pt, et, a, attackGene, targets, <<>>)
    IN  [pt |-> done.pt, et |-> done.et,
         result |-> [type |-> "splash", attacker |-> a, attackGene |-> attackGene,
                     targets |-> done.hits]]

\* checkBattleEnd that waits for both teams to be wiped out
checkBattleEnd_BothWiped(pt, et) ==
    LET playerAlive == \E i \in 1..Len(pt) : isAlive(pt[i])
        enemyAlive  == \E i \in 1..Len(et) : isAlive(et[i])
    IN  IF ~playerAlive /\ ~enemyAlive
        THEN [ended |-> TRUE, winner |-> IF playerAlive THEN "player" ELSE "enemy"]
        ELSE [ended |-> FALSE, winner |-> ""]

\* checkBattleEnd
checkBattleEnd(pt, et) ==
    LET playerAlive == \E i \in 1..Len(pt) : isAlive(pt[i])
        enemyAlive  == \E i \in 1..Len(et) : isAlive(et[i])
    IN  IF ~playerAlive \/ ~enemyAlive
        THEN [ended |-> TRUE, winner |-> IF playerAlive THEN "player" ELSE "enemy"]
        ELSE [ended |-> FALSE, winner |-> ""]

\* getAvailableTargets
getAvailableTargets(pt, et, turns) ==
    LET currentChar == getCurrentCharacter(turns)
    IN  IF currentChar = NoChar THEN <<>> ELSE LivingOpponents(pt, et, currentChar)

(***************************************************************************)
(* BattleAI.  Scores are JavaScript doubles built from attack x 0.3,       *)
(* speed x 0.2, 50 x effectiveness and damages; they are held here exactly, *)
(* in fortieths of a point (Sc(500) is 500 points).  Random draws are held *)
(* in hundredths: the draw 0.5 is 50.  A move is an attack option and the  *)
(* place of a target.                                                      *)
(***************************************************************************)
Sc(n) == 40 * n

\* smartMoveChance in hundredths
AI_DIFFICULTY == [easy |-> 0, normal |-> 50, hard |-> 80, extreme |-> 100]

\* getRarity
getRarity(c) ==
    IF Len(c.genes) = 1 THEN "common"
    ELSE IF c.genes[1] = c.genes[2] THEN "uncommon"
    ELSE "rare"

\* sum of the attacks of the targets (the reduce of calculateThreatLevel)
RECURSIVE SumAttack(_, _, _)
SumAttack(pt, et, targets) ==
    IF targets = <<>> THEN 0
    ELSE Char(pt, et, Head(targets)).stats.attack + SumAttack(pt, et, Tail(targets))

\* calculateThreatLevel; getHealthPercentage > 75 is 4 hp > 3 maxHp, and
\* attack > avgAttack is attack x length > sum
calculateThreatLevel(pt, et, t, allTargets) ==
    LET target == Char(pt, et, t)
        rarity == getRarity(target)
    IN  12 * target.stats.attack
        + 8 * target.stats.speed
        + (IF target.stats.attack * Len(allTargets) > SumAttack(pt, et, allTargets)
           THEN Sc(50) ELSE 0)
        + (IF 4 * target.stats.hp > 3 * target.stats.maxHp THEN Sc(30)
           ELSE IF 4 * target.stats.hp < target.stats.maxHp THEN 0 - Sc(20)
           ELSE 0)
        + (IF rarity = "rare" THEN Sc(40)
           ELSE IF rarity = "uncommon" THEN Sc(20)
           ELSE Sc(10))

\* evaluateSingleAttack: the score
evaluateSingleAttack(pt, et, a, attackObj, t, allTargets) ==
    LET attacker      == Char(pt, et, a)
        target        == Char(pt, et, t)
        damage        == calculateDamage(attacker, attackObj.gene, target)
        effectiveness == getEffectiveness(attackObj.gene, target)
    IN  5 * damage
        + (IF damage >= target.stats.hp THEN Sc(500) ELSE 0)
        + (IF target.stats.hp <= 12 * attacker.stats.attack THEN Sc(100) ELSE 0)
        + (IF effectiveness >= 5 THEN 500 * effectiveness
           ELSE IF effectiveness <= 3 THEN 0 - Sc(25)
           ELSE 0)
        + calculateThreatLevel(pt, et, t, allTargets)
        + (IF /\ 2 * target.stats.hp < target.stats.maxHp
              /\ 10 * target.stats.attack > 8 * attacker.stats.attack
           THEN Sc(75) ELSE 0)

\* the for loop of evaluateSplashAttack: totalDamage + 200 killCount + bonus
RECURSIVE evaluateSplashAttack(_, _, _, _, _)
evaluateSplashAttack(pt, et, a, attackObj, availableTargets) ==
    IF availableTargets = <<>> THEN 0
    ELSE LET attacker      == Char(pt, et, a)
             target        == Char(pt, et, Head(availableTargets))
             effectiveness == getEffectiveness(attackObj.gene, target)
             damage        == attacker.stats.attack * effectiveness * SPLASH_DAMAGE_MULTIPLIER
         IN  5 * damage
             + (IF damage >= target.stats.hp THEN Sc(200) ELSE 0)
             + (IF effectiveness >= 5 THEN 500 * effectiveness ELSE 0)
             + evaluateSplashAttack(pt, et, a, attackObj, Tail(availableTargets))

\* the moves scored when the single attacks are tried on every member of
\* the opposing team, the defeated included
Candidates_WholeTeam(pt, et, a, availableTargets) ==
    LET attackObjs == getAttackGenes(Char(pt, et, a))
        opposing   == IF a[1] = "E" THEN [i \in 1..Len(pt) |-> <<"P", i>>]
                      ELSE [i \in 1..Len(et) |-> <<"E", i>>]
        of(attackObj) ==
            IF attackObj.type = "splash"
            THEN << [attack |-> attackObj,
                     target |-> IF availableTargets = <<>> THEN NoTarget
                                ELSE availableTargets[1],
                     score  |-> evaluateSplashAttack(pt, et, a, attackObj,
                                                     availableTargets)] >>
            ELSE [i \in 1..Len(opposing) |->
                     [attack |-> attackObj, target |-> opposing[i],
                      score  |-> evaluateSingleAttack(pt, et, a, attackObj,
                                     opposing[i], availableTargets)]]
    IN  of(attackObjs[1]) \o of(attackObjs[2])

\* the moves calculateBestMove scores, in the order of its loops
Candidates(pt, et, a, availableTargets) ==
    LET attackObjs == getAttackGenes(Char(pt, et, a))
        of(attackObj) ==
            IF attackObj.type = "splash"
            THEN << [attack |-> attackObj,
                     target |-> IF availableTargets = <<>> THEN NoTarget
                                ELSE availableTargets[1],
                     score  |-> evaluateSplashAttack(pt, et, a, attackObj,
                                                     availableTargets)] >>
            ELSE [i \in 1..Len(availableTargets) |->
                     [attack |-> attackObj, target |-> availableTargets[i],
                      score  |-> evaluateSingleAttack(pt, et, a, attackObj,
                                     availableTargets[i], availableTargets)]]
    IN  of(attackObjs[1]) \o of(attackObjs[2])

\* the test of calculateBestMove that keeps whatever was scored last
KeepBest_Latest(best, c) == c

\* "if (score > bestScore)": best is <<>> while bestScore is -Infinity
KeepBest(best, c) ==
    IF best = <<>> THEN c
    ELSE IF c.score > best.score THEN c ELSE best

RECURSIVE BestOf(_, _)
BestOf(cands, best) ==
    IF cands = <<>> THEN best
    ELSE BestOf(Tail(cands), KeepBest(best, Head(cands)))

\* calculateBestMove
calculateBestMove(pt, et, a, availableTargets) ==
    LET best == BestOf(Candidates(pt, et, a, availableTargets), <<>>)
    IN  IF best = <<>>
        THEN [attack |-> getAttackGenes(Char(pt, et, a))[1],
              target |-> IF availableTargets = <<>> THEN NoTarget
                         ELSE availableTargets[1]]
        ELSE [attack |-> best.attack, target |-> best.target]

\* what processAITurn resolves with when it resolves with nothing to do
NoDecision == [success |-> FALSE, reason |-> "", attack |-> <<>>, target |-> NoTarget,
               wasSmartMove |-> FALSE, difficulty |-> "", draw |-> 0]

\* makeDecision with the draw compared by "<="
makeDecision_AtMost(diff, pt, et, a, availableTargets, draw, attackPick, targetPick) ==
    LET shouldMakeSmartMove == draw <= AI_DIFFICULTY[diff]
        bestMove   == calculateBestMove(pt, et, a, availableTargets)
        attackObjs == getAttackGenes(Char(pt, et, a))
    IN  [success |-> TRUE, reason |-> "",
         attack |-> IF shouldMakeSmartMove THEN bestMove.attack
                    ELSE attackObjs[attackPick],
         target |-> IF shouldMakeSmartMove THEN bestMove.target
                    ELSE IF targetPick = 0 THEN NoTarget
                    ELSE availableTargets[targetPick],
         wasSmartMove |-> shouldMakeSmartMove, difficulty |-> diff, draw |-> draw]

\* makeDecision: draw is the first Math.random(), attackPick and targetPick
\* are the indices the two later draws give (targetPick 0: no target to
\* pick).  The decision also notes the draw it was made with.
makeDecision(diff, pt, et, a, availableTargets, draw, attackPick, targetPick) ==
    LET shouldMakeSmartMove == draw < AI_DIFFICULTY[diff]
        bestMove   == calculateBestMove(pt, et, a, availableTargets)
        attackObjs == getAttackGenes(Char(pt, et, a))
    IN  [success |-> TRUE, reason |-> "",
         attack |-> IF shouldMakeSmartMove THEN bestMove.attack
                    ELSE attackObjs[attackPick],
         target |-> IF shouldMakeSmartMove THEN bestMove.target
                    ELSE IF targetPick = 0 THEN NoTarget
                    ELSE availableTargets[targetPick],
         wasSmartMove |-> shouldMakeSmartMove, difficulty |-> diff, draw |-> draw]

\* no thinking timer is pending
NoTimer == <<>>

\* no pending timer of a kind that is set without keeping its handle
NoTimers == [fresh |-> 0, stale |-> 0]

(***************************************************************************)
(* BreedingGame: the persistent roster and the start of a battle           *)
(***************************************************************************)
Range(f) == {f[i] : i \in DOMAIN f}

Templates == {<<g>> : g \in Range(GENES)} \cup (Range(GENES) \X Range(GENES))

\* generateCharacters: single genes unlocked, double genes locked
generateCharacters ==
    [t \in Templates |-> GameCharacter(<<t, 0>>, t, Len(t) = 1)]

\* templates the breeding game can discover in the explored runs
Discoverable == { <<"Purple", "Purple">> }

\* teams the player selects in the explored runs (selection order)
Rosters ==
    { << <<"Purple", "Purple">>, <<"Red">>, <<"Purple">> >>,
      << <<"Purple", "Purple">>, <<"Blue">>, <<"Green">> >> }

\* playerTeam.map(...) of setupBattle
ClonePlayerTeam(chars, roster) ==
    [i \in 1..Len(roster) |->
        [resetForBattle(clone(chars[roster[i]])) EXCEPT !.isPlayer = "true"]]

\* one enemy built from a roster record; suffix n > 0 marks the id
EnemyFrom(c, n) ==
    LET cloned == clone(c)
        named  == IF n > 0 THEN [cloned EXCEPT !.id = <<c.id[1], n>>] ELSE cloned
    IN  [resetForBattle(named) EXCEPT !.isPlayer = "false"]

\* generateEnemyTeam: every team the random draws can produce
generateEnemyTeam(chars, pt) ==
    LET inPlayerTeam(id)    == \E i \in 1..Len(pt) : pt[i].id = id
        availableCharacters == {t \in DOMAIN chars :
                                   chars[t].unlocked /\ ~inPlayerTeam(chars[t].id)}
        allAvailable        == {t \in DOMAIN chars : chars[t].unlocked}
    IN  IF Cardinality(availableCharacters) < TEAM_SIZE
        THEN { [i \in 1..TEAM_SIZE |->
                   EnemyFrom(chars[pick[i]],
                             IF inPlayerTeam(chars[pick[i]].id) THEN i ELSE 0)] :
               pick \in [1..TEAM_SIZE -> allAvailable] }
        ELSE { [i \in 1..TEAM_SIZE |-> EnemyFrom(chars[pick[i]], 0)] :
               pick \in {f \in [1..TEAM_SIZE -> availableCharacters] :
                            \A i, j \in 1..TEAM_SIZE : i # j => f[i] # f[j]} }

(***************************************************************************)
(* Initial state: BreedingGame and BattleSystem constructors               *)
(***************************************************************************)
Init ==
    /\ characters = generateCharacters
    /\ playerTeam = <<>>
    /\ enemyTeam = <<>>
    /\ turnQueue = <<>>
    /\ battlePhase = "setup"
    /\ actionBars = <<>>
    /\ turnHistory = <<>>
    /\ upcomingTurns = <<>>
    /\ isProcessingTurn = FALSE
    /\ attackButtonsDisabled = FALSE
    /\ pc = "idle"
    /\ pending = NoResults
    /\ lastCall = NoCall
    /\ difficulty = "easy"
    /\ thinkingTimer = NoTimer
    /\ aiResult = NoDecision
    /\ aiTurnTimers = NoTimers
    /\ endTimers = NoTimers

(***************************************************************************)
(* Actions                                                                 *)
(***************************************************************************)
\* BreedingGame.unlockCharacter
UnlockCharacter(t) ==
    /\ pc = "idle"
    /\ battlePhase = "setup"
    /\ ~characters[t].unlocked
    /\ characters' = [characters EXCEPT ![t].unlocked = TRUE]
    /\ UNCHANGED <<playerTeam, enemyTeam, turnQueue, battlePhase, actionBars,
                   turnHistory, upcomingTurns, isProcessingTurn,
                   attackButtonsDisabled, pc, pending, lastCall>>
    /\ UNCHANGED aiVars
    /\ UNCHANGED timerVars

\* the roster after a setupBattle that marks and resets the records of the
\* roster themselves instead of clones
RosterAfterSetup_Shared(chars, roster) ==
    [t \in DOMAIN chars |->
        IF \E i \in 1..Len(roster) : roster[i] = t
        THEN [resetForBattle(chars[t]) EXCEPT !.isPlayer = "true"]
        ELSE chars[t]]

\* the roster after setupBattle and generateEnemyTeam: resetForBattle, isPlayer
\* and the id suffix are written to the objects clone() returned
RosterAfterSetup(chars, roster) == chars

\* BattleSystem.setupBattle with the records of the roster
SetupBattleCall(roster) ==
    /\ LET pt == ClonePlayerTeam(characters, roster)
       IN  \E et \in generateEnemyTeam(characters, pt) :
              LET q == createTurnQueue(pt, et)
              IN  /\ playerTeam' = pt
                  /\ enemyTeam' = et
                  /\ actionBars' = q.actionBars
                  /\ upcomingTurns' = q.upcomingTurns
                  /\ turnQueue' = q.turnQueue
                  /\ battlePhase' = "battle"
                  /\ attackButtonsDisabled' = FALSE
                  /\ isProcessingTurn' = FALSE
                  /\ lastCall' = [NoCall EXCEPT !.op = "setupBattle", !.success = TRUE]
    /\ characters' = RosterAfterSetup(characters, roster)
    /\ UNCHANGED <<turnHistory, pc, pending>>
    /\ UNCHANGED aiVars

\* BreedingGame.startBattle -> BattleSystem.setupBattle, from the team-setup view
StartBattle(roster) ==
    /\ pc = "idle"
    /\ battlePhase = "setup"
    /\ \A i \in 1..Len(roster) : characters[roster[i]].unlocked
    /\ Len(roster) = 3
    /\ SetupBattleCall(roster)
    /\ UNCHANGED timerVars

\* the rosters of another size handed to setupBattle directly
ShortRosters == { << <<"Red">>, <<"Orange">> >> }

\* a roster that leaves fewer than TEAM_SIZE unlocked characters outside the
\* player team, so that generateEnemyTeam draws with repetition
LongRosters == { << <<"Red">>, <<"Orange">>, <<"Yellow">>, <<"Green">> >> }

\* the draws of generateEnemyTeam followed for such a roster: those that pick
\* the enemies in the order of GENES, repetitions included
InTableOrderOrEqual(et) ==
    LET index(c) == CHOOSE i \in 1..Len(GENES) : GENES[i] = c.genes[1]
    IN  \A i \in 1..(Len(et) - 1) : index(et[i]) <= index(et[i + 1])

\* BattleSystem.setupBattle called by a client other than BreedingGame,
\* which does not go through the size test of startBattle
SetupBattle(roster) ==
    /\ pc = "idle"
    /\ battlePhase = "setup"
    /\ \A i \in 1..Len(roster) : characters[roster[i]].unlocked
    /\ SetupBattleCall(roster)
    /\ roster \in LongRosters => InTableOrderOrEqual(enemyTeam')
    /\ UNCHANGED timerVars

\* BattleSystem.reset and BattleAI.reset, as BreedingGame.returnToSetup
\* calls them
ResetCall ==
    /\ playerTeam' = <<>>
    /\ enemyTeam' = <<>>
    /\ turnQueue' = <<>>
    /\ battlePhase' = "setup"
    /\ actionBars' = <<>>
    /\ turnHistory' = <<>>
    /\ upcomingTurns' = <<>>
    /\ isProcessingTurn' = FALSE
    /\ attackButtonsDisabled' = FALSE
    /\ lastCall' = [NoCall EXCEPT !.op = "reset", !.success = TRUE]
    /\ thinkingTimer' = NoTimer
    /\ difficulty' = "easy"
    /\ UNCHANGED <<characters, pc, pending, aiResult>>

\* BreedingGame.returnToSetup: BattleSystem.reset and BattleAI.reset
Reset ==
    /\ pc = "idle"
    /\ ResetCall
    /\ UNCHANGED timerVars

\* the inputs tried for a processTurn call in the current state
Free == Len(turnHistory) < FreeTurns

AttackInputs ==
    LET cur == getCurrentCharacter(upcomingTurns)
    IN  IF cur = NoChar THEN { [gene |-> "Neutral", type |-> "single"] }
        ELSE LET opts == getAttackGenes(Char(playerTeam, enemyTeam, cur))
             IN  IF Free THEN Range(opts) ELSE {opts[1 + (Len(turnHistory) % 2)]}

TargetInputs ==
    LET avail == getAvailableTargets(playerTeam, enemyTeam, upcomingTurns)
    IN  IF Free THEN Range(avail) \cup {NoTarget}
        ELSE IF avail = <<>> THEN {NoTarget} ELSE {avail[1]}

\* processTurn without the test of the flag
TurnInProgress_Unchecked == FALSE

\* the test "if (this.isProcessingTurn)" at the head of processTurn
TurnInProgress == isProcessingTurn

\* the flag kept set when processTurn returns 'invalid_attacker'
FlagAfterInvalidAttacker_Kept == TRUE

\* "this.isProcessingTurn = false" before processTurn returns
\* 'invalid_attacker'
FlagAfterInvalidAttacker == FALSE

\* processTurn up to its await, entered with the flag free; back is where
\* the caller stands when the call returns without reaching the await
ProcessTurnSteps(attackObj, targetCharacter, back) ==
    /\ LET attacker == getCurrentCharacter(upcomingTurns)
       IN  IF attacker = NoChar \/ ~isAlive(Char(playerTeam, enemyTeam, attacker))
           THEN \* invalid attacker: the flag is released again
                /\ lastCall' = [NoCall EXCEPT !.op = "processTurn",
                                              !.reason = "invalid_attacker"]
                /\ isProcessingTurn' = FlagAfterInvalidAttacker
                /\ pc' = back
                /\ UNCHANGED <<playerTeam, enemyTeam, actionBars, upcomingTurns,
                               turnQueue, pending>>
           ELSE IF attackObj.type = "splash"
           THEN LET r == processSplashAttack(playerTeam, enemyTeam, attacker, attackObj.gene)
                    q == updateTurnQueue(r.pt, r.et, actionBars)
                IN  /\ playerTeam' = r.pt
                    /\ enemyTeam' = r.et
                    /\ actionBars' = q.actionBars
                    /\ upcomingTurns' = q.upcomingTurns
                    /\ turnQueue' = q.turnQueue
                    /\ isProcessingTurn' = TRUE
                    /\ pending' = r.result
                    /\ pc' = "awaiting"
                    /\ UNCHANGED lastCall
           ELSE IF targetCharacter = NoTarget
           THEN \* calculateDamage / takeDamage dereference the missing target:
                \* the call throws with the flag still set
                /\ isProcessingTurn' = TRUE
                /\ lastCall' = [NoCall EXCEPT !.op = "processTurn", !.reason = "threw"]
                /\ pc' = back
                /\ UNCHANGED <<playerTeam, enemyTeam, actionBars, upcomingTurns,
                               turnQueue, pending>>
           ELSE LET r == processSingleAttack(playerTeam, enemyTeam, attacker,
                                             attackObj.gene, targetCharacter)
                    q == IF r.wasDefeated
                         THEN updateTurnQueue(r.pt, r.et, actionBars)
                         ELSE [actionBars |-> actionBars, upcomingTurns |-> upcomingTurns,
                               turnQueue |-> turnQueue]
                IN  /\ playerTeam' = r.pt
                    /\ enemyTeam' = r.et
                    /\ actionBars' = q.actionBars
                    /\ upcomingTurns' = q.upcomingTurns
                    /\ turnQueue' = q.turnQueue
                    /\ isProcessingTurn' = TRUE
                    /\ pending' = r.result
                    /\ pc' = "awaiting"
                    /\ UNCHANGED lastCall
    /\ UNCHANGED <<characters, battlePhase, turnHistory>>

\* processTurn called by a caller that writes nothing itself
ProcessTurnCall(attackObj, targetCharacter, back) ==
    /\ ProcessTurnSteps(attackObj, targetCharacter, back)
    /\ UNCHANGED attackButtonsDisabled

\* a caller other than the AI calls processTurn with the flag free.  A caller
\* may call while an earlier call waits at its await; only the flag stops
\* it.  Calls made while the AI thinks are not explored.
ProcessTurnBegin(attackObj, targetCharacter) ==
    /\ pc \in {"idle", "awaiting"}
    /\ ~TurnInProgress
    /\ thinkingTimer = NoTimer
    /\ ProcessTurnCall(attackObj, targetCharacter, pc)
    /\ UNCHANGED aiVars
    /\ UNCHANGED timerVars

\* processTurn entered with the flag set
ProcessTurnRefused(back) ==
    /\ lastCall' = [NoCall EXCEPT !.op = "processTurn", !.reason = "already_processing"]
    /\ pc' = back
    /\ UNCHANGED <<characters, playerTeam, enemyTeam, turnQueue, battlePhase,
                   actionBars, turnHistory, upcomingTurns, isProcessingTurn,
                   attackButtonsDisabled, pending>>

\* processTurn called while the flag is set
ProcessTurnRejected ==
    /\ pc \in {"idle", "awaiting"}
    /\ TurnInProgress
    /\ thinkingTimer = NoTimer
    /\ ProcessTurnRefused(pc)
    /\ UNCHANGED aiVars
    /\ UNCHANGED timerVars

\* a check that ends the battle after every turn
PhaseAfterCheck_EndsAlways(ended, phase) == "ended"

\* checkBattleEnd writes the phase only when a team is wiped out
PhaseAfterCheck(ended, phase) == IF ended THEN "ended" ELSE phase

\* a caller that advances the queue whatever the result says
AfterTurn_AlwaysAdvance(ended) == "resolved"

\* where the caller goes on after a successful call: "if (!result.battleEnded)"
\* leads to nextTurn, a battle that ended leads to the end of the handler
AfterTurn(ended) == IF ended THEN "idle" ELSE "resolved"

\* processTurn after its await: checkBattleEnd, release the flag, return
ProcessTurnReturn ==
    /\ pc = "awaiting"
    /\ LET e == checkBattleEnd(playerTeam, enemyTeam)
       IN  /\ battlePhase' = PhaseAfterCheck(e.ended, battlePhase)
           /\ lastCall' = [op |-> "processTurn", success |-> TRUE, reason |-> "",
                           battleEnded |-> e.ended, winner |-> e.winner,
                           turnResults |-> pending]
           /\ pc' = AfterTurn(e.ended)
    /\ isProcessingTurn' = FALSE
    /\ pending' = NoResults
    /\ aiResult' = NoDecision
    /\ UNCHANGED <<characters, playerTeam, enemyTeam, turnQueue, actionBars,
                   turnHistory, upcomingTurns, attackButtonsDisabled,
                   difficulty, thinkingTimer>>

\* the pending processTurn call returns to its caller
ProcessTurnResume ==
    /\ ProcessTurnReturn
    /\ UNCHANGED timerVars

\* nextTurn that recomputes the buffer from the bars as they were before the
\* consumption
nextTurn_StaleBars ==
    LET currentChar == getCurrentCharacter(upcomingTurns)
    IN  IF currentChar = NoChar
        THEN [actionBars |-> actionBars, turnHistory |-> turnHistory,
              upcomingTurns |-> upcomingTurns, turnQueue |-> turnQueue]
        ELSE LET charId  == getCharId(Char(playerTeam, enemyTeam, currentChar))
                 bars    == [actionBars EXCEPT ![charId] = @ - ACTION_THRESHOLD]
                 shifted == Tail(upcomingTurns)
                 turns   == IF Len(shifted) < TurnsAhead
                            THEN calculateUpcomingTurns(playerTeam, enemyTeam, actionBars,
                                                        TurnsAhead)
                            ELSE shifted
             IN  [actionBars |-> bars,
                  turnHistory |-> Append(turnHistory, upcomingTurns[1]),
                  upcomingTurns |-> turns, turnQueue |-> DisplaySlice(turns)]

\* nextTurn that empties the bar instead of consuming one threshold
nextTurn_ResetBar ==
    LET currentChar == getCurrentCharacter(upcomingTurns)
    IN  IF currentChar = NoChar
        THEN [actionBars |-> actionBars, turnHistory |-> turnHistory,
              upcomingTurns |-> upcomingTurns, turnQueue |-> turnQueue]
        ELSE LET charId  == getCharId(Char(playerTeam, enemyTeam, currentChar))
                 bars    == [actionBars EXCEPT ![charId] = 0]
                 shifted == Tail(upcomingTurns)
                 turns   == IF Len(shifted) < TurnsAhead
                            THEN calculateUpcomingTurns(playerTeam, enemyTeam, bars, TurnsAhead)
                            ELSE shifted
             IN  [actionBars |-> bars,
                  turnHistory |-> Append(turnHistory, upcomingTurns[1]),
                  upcomingTurns |-> turns, turnQueue |-> DisplaySlice(turns)]

\* nextTurn: the new values of the scheduler state
nextTurn ==
    LET currentChar == getCurrentCharacter(upcomingTurns)
    IN  IF currentChar = NoChar
        THEN [actionBars |-> actionBars, turnHistory |-> turnHistory,
              upcomingTurns |-> upcomingTurns, turnQueue |-> turnQueue]
        ELSE LET charId  == getCharId(Char(playerTeam, enemyTeam, currentChar))
                 bars    == [actionBars EXCEPT ![charId] = @ - ACTION_THRESHOLD]
                 shifted == Tail(upcomingTurns)
                 turns   == IF Len(shifted) < TurnsAhead
                            THEN calculateUpcomingTurns(playerTeam, enemyTeam, bars, TurnsAhead)
                            ELSE shifted
             IN  [actionBars |-> bars,
                  turnHistory |-> Append(turnHistory, upcomingTurns[1]),
                  upcomingTurns |-> turns, turnQueue |-> DisplaySlice(turns)]

ApplyNextTurn ==
    LET n == nextTurn
    IN  /\ actionBars' = n.actionBars
        /\ turnHistory' = n.turnHistory
        /\ upcomingTurns' = n.upcomingTurns
        /\ turnQueue' = n.turnQueue
        /\ lastCall' = [NoCall EXCEPT !.op = "nextTurn", !.success = TRUE]

\* executePlayerTurn / onDecisionMade: nextTurn after a turn that did not
\* end the battle
NextTurnCall ==
    /\ pc = "resolved"
    /\ Len(turnHistory) < MaxTurns
    /\ ApplyNextTurn
    /\ pc' = "idle"
    /\ UNCHANGED <<characters, playerTeam, enemyTeam, battlePhase, isProcessingTurn,
                   attackButtonsDisabled, pending>>
    /\ UNCHANGED aiVars

\* the caller of the resolved turn advances the queue
NextTurnAfterAttack ==
    /\ NextTurnCall
    /\ UNCHANGED timerVars

\* BattleControls.forceEndTurn: nextTurn without an attack
ForceEndTurn ==
    /\ pc = "idle"
    /\ ~isProcessingTurn
    /\ Free
    /\ thinkingTimer = NoTimer
    /\ Len(turnHistory) < MaxTurns
    /\ ApplyNextTurn
    /\ UNCHANGED <<characters, playerTeam, enemyTeam, battlePhase, isProcessingTurn,
                   attackButtonsDisabled, pc, pending>>
    /\ UNCHANGED aiVars
    /\ UNCHANGED timerVars

\* the difficulty buttons of the team-setup view
Difficulties == {"easy", "extreme"}

\* the first draws of makeDecision that are tried, in hundredths
Draws == {0, 49, 50, 79, 80, 99}

\* BattleAI.setDifficulty, from the team-setup view
SetDifficulty(d) ==
    /\ pc = "idle"
    /\ battlePhase = "setup"
    /\ difficulty # d
    /\ difficulty' = d
    /\ UNCHANGED <<characters, playerTeam, enemyTeam, turnQueue, battlePhase,
                   actionBars, turnHistory, upcomingTurns, isProcessingTurn,
                   attackButtonsDisabled, pc, pending, lastCall,
                   thinkingTimer, aiResult>>
    /\ UNCHANGED timerVars

\* the test "availableTargets.length === 0" of processAITurn, left out
NoTargets_Unchecked(availableTargets) == FALSE

\* the test "availableTargets.length === 0" of processAITurn
NoTargets(availableTargets) == Len(availableTargets) = 0

\* BattleAI.processAITurn up to the start of its timer; stale tells whether
\* the caller was scheduled before the last return to the team setup
AIProcessTurnCall(stale) ==
    /\ LET attacker         == getCurrentCharacter(upcomingTurns)
           availableTargets == getAvailableTargets(playerTeam, enemyTeam, upcomingTurns)
       IN  IF NoTargets(availableTargets)
           THEN /\ aiResult' = [NoDecision EXCEPT !.reason = "no_targets"]
                /\ pc' = "aiResolved"
                /\ UNCHANGED thinkingTimer
           ELSE /\ thinkingTimer' = [attacker |-> attacker, targets |-> availableTargets,
                                     stale |-> stale]
                /\ UNCHANGED <<aiResult, pc>>
    /\ UNCHANGED <<characters, playerTeam, enemyTeam, turnQueue, battlePhase,
                   actionBars, turnHistory, upcomingTurns, isProcessingTurn,
                   attackButtonsDisabled, pending, lastCall, difficulty>>

\* BattleAI.processAITurn called for an enemy's turn, or when nobody can be
\* attacked, during the free turns or after the end of the battle
AIProcessTurn ==
    /\ pc = "idle"
    /\ thinkingTimer = NoTimer
    /\ battlePhase = "ended" \/ (battlePhase = "battle" /\ Free)
    /\ LET attacker         == getCurrentCharacter(upcomingTurns)
           availableTargets == getAvailableTargets(playerTeam, enemyTeam, upcomingTurns)
       IN  IF availableTargets = <<>> THEN TRUE
           ELSE ~IsPlayer(Char(playerTeam, enemyTeam, attacker))
    /\ AIProcessTurnCall(FALSE)
    /\ UNCHANGED timerVars

\* the callback of the thinking timer: makeDecision, then onDecisionMade,
\* which calls processTurn with the decision, then resolve(decision)
ThinkingTimerCall(draw, attackPick, targetPick) ==
    /\ pc = "idle"
    /\ thinkingTimer # NoTimer
    /\ targetPick \in (IF thinkingTimer.targets = <<>> THEN {0}
                       ELSE 1..Len(thinkingTimer.targets))
    /\ LET decision == makeDecision(difficulty, playerTeam, enemyTeam,
                                     thinkingTimer.attacker, thinkingTimer.targets,
                                     draw, attackPick, targetPick)
       IN  /\ aiResult' = decision
           /\ IF TurnInProgress
              THEN ProcessTurnRefused("aiResolved")
              ELSE ProcessTurnCall(decision.attack, decision.target, "aiResolved")
    /\ thinkingTimer' = NoTimer
    /\ UNCHANGED difficulty

\* the thinking timer fires
AITimerFires(draw, attackPick, targetPick) ==
    /\ ThinkingTimerCall(draw, attackPick, targetPick)
    /\ UNCHANGED timerVars

\* BattleControls.processAITurn takes the value the promise resolved with
AIReturn ==
    /\ pc = "aiResolved"
    /\ pc' = "idle"
    /\ aiResult' = NoDecision
    /\ UNCHANGED <<characters, playerTeam, enemyTeam, turnQueue, battlePhase,
                   actionBars, turnHistory, upcomingTurns, isProcessingTurn,
                   attackButtonsDisabled, pending, lastCall, difficulty,
                   thinkingTimer>>
    /\ UNCHANGED timerVars

Next ==
    \/ \E t \in Discoverable : UnlockCharacter(t)
    \/ \E roster \in Rosters : StartBattle(roster)
    \/ Reset
    \/ \E attackObj \in AttackInputs, targetCharacter \in TargetInputs :
           ProcessTurnBegin(attackObj, targetCharacter)
    \/ ProcessTurnRejected
    \/ ProcessTurnResume
    \/ NextTurnAfterAttack
    \/ ForceEndTurn
    \/ \E d \in Difficulties : SetDifficulty(d)
    \/ AIProcessTurn
    \/ \E draw \in Draws, attackPick \in 1..2, targetPick \in 0..TEAM_SIZE :
           AITimerFires(draw, attackPick, targetPick)
    \/ AIReturn

Spec == Init /\ [][Next]_vars

\* the attacks and the target a client hands to processTurn after the end
\* of the battle: any attack of the current combatant, on the first opponent
AfterEndAttacks ==
    LET cur == getCurrentCharacter(upcomingTurns)
    IN  IF cur = NoChar THEN {}
        ELSE Range(getAttackGenes(Char(playerTeam, enemyTeam, cur)))

AfterEndTargets ==
    LET cur == getCurrentCharacter(upcomingTurns)
    IN  IF cur = NoChar THEN {}
        ELSE IF cur[1] = "P" THEN { <<"E", 1>> } ELSE { <<"P", 1>> }

\* BattleSystem.processTurn called after the end of the battle; processTurn
\* does not look at the phase
ProcessTurnAfterEnd(attackObj, targetCharacter) ==
    /\ pc = "idle"
    /\ battlePhase = "ended"
    /\ ~TurnInProgress
    /\ thinkingTimer = NoTimer
    /\ ProcessTurnCall(attackObj, targetCharacter, "idle")
    /\ UNCHANGED aiVars
    /\ UNCHANGED timerVars

\* BattleSystem.nextTurn called after the end of the battle; nextTurn does
\* not look at the phase
NextTurnAfterEnd ==
    /\ pc = "idle"
    /\ battlePhase = "ended"
    /\ ~isProcessingTurn
    /\ thinkingTimer = NoTimer
    /\ Len(turnHistory) < MaxTurns
    /\ ApplyNextTurn
    /\ UNCHANGED <<characters, playerTeam, enemyTeam, battlePhase, isProcessingTurn,
                   attackButtonsDisabled, pc, pending>>
    /\ UNCHANGED aiVars
    /\ UNCHANGED timerVars

\* the program together with direct calls of BattleSystem.setupBattle, and
\* of processTurn and nextTurn after the end of the battle
NextDirect ==
    \/ Next
    \/ \E roster \in ShortRosters \cup LongRosters : SetupBattle(roster)
    \/ \E attackObj \in AfterEndAttacks, targetCharacter \in AfterEndTargets :
           ProcessTurnAfterEnd(attackObj, targetCharacter)
    \/ NextTurnAfterEnd

SpecDirect == Init /\ [][NextDirect]_vars

(***************************************************************************)
(* BattleControls and BattleDisplay: the turn flows of the user interface  *)
(* with their timers.  A handler runs to its end before a timer or a click *)
(* is served, so timers and clicks are taken only while no call is under   *)
(* way (pc = "idle").                                                      *)
(***************************************************************************)
\* "nextCharacter && !nextCharacter.isPlayer"
EnemyToAct ==
    LET cur == getCurrentCharacter(upcomingTurns)
    IN  IF cur = NoChar THEN FALSE ELSE ~IsPlayer(Char(playerTeam, enemyTeam, cur))

\* setTimeout without keeping the handle
Schedule(timers) ==
    [timers EXCEPT !.fresh = IF @ < MaxTimers THEN @ + 1 ELSE @]

\* a return to the team setup cancels none of these timers
Outlive(timers) ==
    [fresh |-> 0,
     stale |-> IF timers.stale + timers.fresh < MaxTimers
               THEN timers.stale + timers.fresh ELSE MaxTimers]

\* one timer of the kind ("fresh" or "stale") has fired
Fired(timers, kind) == [timers EXCEPT ![kind] = @ - 1]

\* the draws of generateEnemyTeam followed here: those that pick the enemies
\* in the order of GENES
InTableOrder(et) ==
    LET index(c) == CHOOSE i \in 1..Len(GENES) : GENES[i] = c.genes[1]
    IN  \A i \in 1..(Len(et) - 1) : index(et[i]) < index(et[i + 1])

\* BreedingGame.startBattle and BattleControls.initialize
ControlsStartBattle(roster) ==
    /\ pc = "idle"
    /\ battlePhase = "setup"
    /\ \A i \in 1..Len(roster) : characters[roster[i]].unlocked
    /\ Len(roster) = 3
    /\ SetupBattleCall(roster)
    /\ InTableOrder(enemyTeam')
    /\ aiTurnTimers' = IF EnemyToAct' THEN Schedule(aiTurnTimers) ELSE aiTurnTimers
    /\ UNCHANGED endTimers

\* the quit button of the battle arena: BreedingGame.returnToSetup
ReturnToSetup ==
    /\ pc = "idle"
    /\ battlePhase # "setup"
    /\ ResetCall
    /\ aiTurnTimers' = Outlive(aiTurnTimers)
    /\ endTimers' = Outlive(endTimers)

\* the targets the target selection offers
ControlTargets ==
    LET avail == getAvailableTargets(playerTeam, enemyTeam, upcomingTurns)
    IN  IF avail = <<>> THEN {NoTarget}
        ELSE IF Free THEN Range(avail) ELSE {avail[1]}

\* BattleControls.executePlayerTurn up to the await of processTurn, on a
\* player's turn of a running battle
ExecutePlayerTurn(attackObj, targetCharacter) ==
    /\ pc = "idle"
    /\ battlePhase = "battle"
    /\ ~EnemyToAct
    /\ IF TurnInProgress
       THEN ProcessTurnRefused("idle")
       ELSE ProcessTurnCall(attackObj, targetCharacter, "idle")
    /\ UNCHANGED aiVars
    /\ UNCHANGED timerVars

\* processTurn returns to executePlayerTurn or onDecisionMade, which calls
\* handleTurnResult: a battle that ended sets the timer of the return
ControlsTurnResult ==
    /\ ProcessTurnReturn
    /\ endTimers' = IF lastCall'.battleEnded THEN Schedule(endTimers) ELSE endTimers
    /\ UNCHANGED aiTurnTimers

\* executePlayerTurn or onDecisionMade goes on after a turn that did not end
\* the battle: nextTurn, then the timer of the next AI turn
ControlsNextTurn ==
    /\ NextTurnCall
    /\ aiTurnTimers' = IF EnemyToAct' THEN Schedule(aiTurnTimers) ELSE aiTurnTimers
    /\ UNCHANGED endTimers

\* a timer "setTimeout(() => this.processAITurn(), ...)" fires.  One that
\* fires while the AI already thinks is not followed.
AITurnTimerFires(kind) ==
    /\ pc = "idle"
    /\ aiTurnTimers[kind] > 0
    /\ thinkingTimer = NoTimer
    /\ AIProcessTurnCall(kind = "stale")
    /\ aiTurnTimers' = Fired(aiTurnTimers, kind)
    /\ UNCHANGED endTimers

\* the draws and picks tried when the thinking timer fires
ControlsDraws == IF Free THEN {0, 99} ELSE {0}
ControlsPicks ==
    IF thinkingTimer = NoTimer THEN {}
    ELSE IF Free THEN (1..2) \X (1..Len(thinkingTimer.targets)) ELSE { <<1, 1>> }

\* the timer of BattleDisplay.handleBattleEnd fires: returnToSetup
EndTimerFires(kind) ==
    /\ pc = "idle"
    /\ endTimers[kind] > 0
    /\ ResetCall
    /\ aiTurnTimers' = Outlive(aiTurnTimers)
    /\ endTimers' = Outlive(Fired(endTimers, kind))

NextControls ==
    \/ \E t \in Discoverable : UnlockCharacter(t)
    \/ \E roster \in Rosters : ControlsStartBattle(roster)
    \/ ReturnToSetup
    \/ \E attackObj \in AttackInputs, targetCharacter \in ControlTargets :
           ExecutePlayerTurn(attackObj, targetCharacter)
    \/ ControlsTurnResult
    \/ ControlsNextTurn
    \/ \E kind \in {"fresh", "stale"} : AITurnTimerFires(kind)
    \/ \E draw \in ControlsDraws, pick \in ControlsPicks :
           AITimerFires(draw, pick[1], pick[2])
    \/ AIReturn
    \/ \E kind \in {"fresh", "stale"} : EndTimerFires(kind)

SpecControls == Init /\ [][NextControls]_vars

(***************************************************************************)
(* The turn flows of the user interface with the player's turn taken only  *)
(* through the attack buttons                                              *)
(***************************************************************************)
\* a click on an attack button and, for a single attack, on a target button:
\* selectAttackGene, showTargetSelection and executePlayerTurn up to the
\* await of processTurn.  Nothing is served between the two clicks here.
\* No battle of these flows comes to its end, so the timer of
\* handleBattleEnd is never set.
SelectAttackGene(attackObj, targetCharacter) ==
    /\ pc = "idle"
    /\ battlePhase = "battle"
    /\ ~EnemyToAct
    /\ ~(TurnInProgress \/ attackButtonsDisabled)
    /\ attackButtonsDisabled' = TRUE
    /\ ProcessTurnSteps(attackObj, targetCharacter, "idle")
    /\ UNCHANGED aiVars
    /\ UNCHANGED timerVars

NextClicks ==
    \/ \E t \in Discoverable : UnlockCharacter(t)
    \/ \E roster \in Rosters : ControlsStartBattle(roster)
    \/ ReturnToSetup
    \/ \E attackObj \in AttackInputs, targetCharacter \in ControlTargets :
           SelectAttackGene(attackObj, targetCharacter)
    \/ ControlsTurnResult
    \/ ControlsNextTurn
    \/ \E kind \in {"fresh", "stale"} : AITurnTimerFires(kind)
    \/ \E draw \in ControlsDraws, pick \in ControlsPicks :
           AITimerFires(draw, pick[1], pick[2])
    \/ AIReturn

SpecClicks == Init /\ [][NextClicks]_vars

(***************************************************************************)
(* Battles played to their end: one legal attack after the other, each     *)
(* followed by nextTurn, with no return to the team setup                  *)
(***************************************************************************)
\* the longest battle followed; no battle of the explored teams gets there
MaxLiveTurns == 400

\* BreedingGame.startBattle, for the draws of the enemies in table order
LiveStartBattle(roster) ==
    /\ StartBattle(roster)
    /\ InTableOrder(enemyTeam')

\* processTurn with an attack option of the combatant to act and, for a
\* single attack, a living opponent as the target
LegalTurn(attackObj, targetCharacter) ==
    /\ pc = "idle"
    /\ battlePhase = "battle"
    /\ ~TurnInProgress
    /\ ProcessTurnCall(attackObj, targetCharacter, "idle")
    /\ UNCHANGED aiVars
    /\ UNCHANGED timerVars

\* the number of turns of a battle for which every choice is followed
LiveChoiceTurns == 2

\* the attacks and targets tried in these battles: during the first turns
\* every attack option of the combatant to act, on its first or its last
\* living opponent; later the options in turn, on the first living opponent
LiveAttacks ==
    LET cur == getCurrentCharacter(upcomingTurns)
    IN  IF cur = NoChar THEN {}
        ELSE LET opts == getAttackGenes(Char(playerTeam, enemyTeam, cur))
             IN  IF Len(turnHistory) < LiveChoiceTurns THEN Range(opts)
                 ELSE {opts[1 + (Len(turnHistory) % 2)]}

LiveTargets ==
    LET avail == getAvailableTargets(playerTeam, enemyTeam, upcomingTurns)
    IN  IF avail = <<>> THEN {}
        ELSE IF Len(turnHistory) < LiveChoiceTurns THEN {avail[1], avail[Len(avail)]}
        ELSE {avail[1]}

\* nextTurn after the attack, however long the battle has lasted
LiveNextTurn ==
    /\ pc = "resolved"
    /\ Len(turnHistory) < MaxLiveTurns
    /\ ApplyNextTurn
    /\ pc' = "idle"
    /\ UNCHANGED <<characters, playerTeam, enemyTeam, battlePhase, isProcessingTurn,
                   attackButtonsDisabled, pending>>
    /\ UNCHANGED aiVars
    /\ UNCHANGED timerVars

\* the steps of a battle under way
LiveTurn ==
    \/ \E attackObj \in LiveAttacks, targetCharacter \in LiveTargets :
           LegalTurn(attackObj, targetCharacter)
    \/ ProcessTurnResume
    \/ LiveNextTurn

NextLive ==
    \/ \E t \in Discoverable : UnlockCharacter(t)
    \/ \E roster \in Rosters : LiveStartBattle(roster)
    \/ LiveTurn

\* whether a step of the battle can be taken: the guards of LegalTurn,
\* ProcessTurnResume and LiveNextTurn
LiveTurnEnabled ==
    \/ /\ pc = "idle"
       /\ battlePhase = "battle"
       /\ ~TurnInProgress
       /\ LiveAttacks # {}
       /\ LiveTargets # {}
    \/ pc = "awaiting"
    \/ /\ pc = "resolved"
       /\ Len(turnHistory) < MaxLiveTurns

\* where control stands after a step of the battle: processTurn reaches its
\* await, the await returns to the caller, the caller's nextTurn returns
LiveControl ==
    /\ LiveTurnEnabled
    /\ pc' = CASE pc = "idle" -> "awaiting"
              [] pc = "awaiting" -> AfterTurn(checkBattleEnd(playerTeam, enemyTeam).ended)
              [] OTHER -> "idle"

\* turns keep being processed: while a step of the battle can be taken,
\* control moves on
SpecLive == Init /\ [][NextLive]_vars /\ WF_pc(LiveControl)

(***************************************************************************)
(* Properties                                                              *)
(***************************************************************************)
Combatants == Range(AllRefs(playerTeam, enemyTeam))
Fighter(r) == Char(playerTeam, enemyTeam, r)
Living == {r \in Combatants : isAlive(Fighter(r))}
Defeated == Combatants \ Living
LivingOf(team) == {r \in Living : r[1] = team}
Hits(results) == Range(results.targets)
BattleState == <<playerTeam, enemyTeam, actionBars, upcomingTurns, turnQueue,
                 battlePhase, turnHistory>>

\* C1: a processTurn call made while an earlier call holds the flag returns
\* 'already_processing' and changes no hp, action bar, buffer, display queue
\* or phase: as long as the flag stays held, the battle state stays as it is
\* and the only thing a call returns is the rejection.
C1_SecondCallRejected ==
    [][ (isProcessingTurn /\ isProcessingTurn') =>
            /\ BattleState' = BattleState
            /\ pending' = pending
            /\ lastCall' # lastCall =>
                   /\ lastCall'.op = "processTurn"
                   /\ ~lastCall'.success
                   /\ lastCall'.reason = "already_processing" ]_vars

\* a second call was rejected while the first one waits at its await
C1_Witness ==
    /\ pc = "awaiting"
    /\ lastCall.op = "processTurn"
    /\ lastCall.reason = "already_processing"

\* C2: when processTurn has returned success, battleEnded is true and the
\* phase is 'ended' exactly if one of the teams has no living member, and
\* the winner it names has a living member.
C2_EndExactlyWhenTeamWiped ==
    (lastCall.op = "processTurn" /\ lastCall.success /\ pc # "awaiting") =>
        LET wiped == LivingOf("P") = {} \/ LivingOf("E") = {}
        IN  /\ lastCall.battleEnded <=> wiped
            /\ (battlePhase = "ended") <=> wiped
            /\ lastCall.battleEnded =>
                   \/ lastCall.winner = "player" /\ LivingOf("P") # {}
                   \/ lastCall.winner = "enemy" /\ LivingOf("E") # {}

\* a processTurn call has returned the end of the battle
C2_Witness ==
    /\ lastCall.op = "processTurn"
    /\ lastCall.battleEnded
    /\ battlePhase = "ended"
    /\ pc = "idle"
    /\ Living # {}

\* C3: every combatant's hp lies between 0 and its maxHp, and a hit whose
\* damage is at least the hp the target had leaves the target at exactly 0.
C3_HpWithinBounds ==
    /\ \A r \in Combatants :
           Fighter(r).stats.hp >= 0 /\ Fighter(r).stats.hp <= Fighter(r).stats.maxHp
    /\ pc = "awaiting" =>
           \A h \in Hits(pending) :
               h.damage >= h.hpBefore => Fighter(h.target).stats.hp = 0

\* a living target has just been struck for more than the hp it had left
C3_Witness ==
    /\ pc = "awaiting"
    /\ \E h \in Hits(pending) : h.hpBefore > 0 /\ h.damage > h.hpBefore

\* C4: neither the upcoming-turns buffer nor the display queue names a
\* combatant whose hp is 0.
C4_NoDefeatedScheduled ==
    /\ \A i \in 1..Len(upcomingTurns) : isAlive(Fighter(upcomingTurns[i]))
    /\ \A i \in 1..Len(turnQueue) : isAlive(Fighter(turnQueue[i]))

\* a combatant is defeated, the battle goes on and turns have been advanced
C4_Witness ==
    /\ battlePhase = "battle"
    /\ Defeated # {}
    /\ lastCall.op = "nextTurn"
    /\ Len(upcomingTurns) > 0
    /\ Len(turnQueue) > 0

\* C5: while each team has a living combatant the buffer is not empty and
\* getCurrentCharacter is a living combatant; when nobody is alive (or no
\* battle is set up) getCurrentCharacter is null.
C5_CurrentCharacterLiving ==
    /\ (LivingOf("P") # {} /\ LivingOf("E") # {}) =>
           /\ Len(upcomingTurns) > 0
           /\ getCurrentCharacter(upcomingTurns) \in Living
    /\ Living = {} => getCurrentCharacter(upcomingTurns) = NoChar

\* both teams still fight after a defeat and after turns were taken
C5_Witness ==
    /\ LivingOf("P") # {}
    /\ LivingOf("E") # {}
    /\ Defeated # {}
    /\ Len(turnHistory) > 0
    /\ getCurrentCharacter(upcomingTurns) \in Living

\* the order the claim gives to two turns of one tick
TurnPrecedes(x, y) ==
    \/ x.bar > y.bar
    \/ /\ x.bar = y.bar
       /\ \/ x.speed < y.speed
          \/ /\ x.speed = y.speed
             /\ \/ x.char[1] = "P" /\ y.char[1] = "E"
                \/ x.char[1] = y.char[1] /\ x.char[2] < y.char[2]

\* the turns calculateUpcomingTurns produces from the current state
CurrentRecords == TurnRecords(playerTeam, enemyTeam, actionBars, TurnsAhead)

\* C6: of the turns produced in one tick, an earlier one has the higher bar,
\* or the same bar and the lower speed, or both the same and is the player's
\* against the enemy's, or all the same and the lower team index; so two
\* different ready combatants never compare equal.
C6_TieBreakOrder ==
    LET recs == CurrentRecords
    IN  \A i, j \in 1..Len(recs) :
            (i < j /\ recs[i].tick = recs[j].tick) =>
                TurnPrecedes(recs[i], recs[j]) /\ ~TurnPrecedes(recs[j], recs[i])

\* one tick readies an ally and two opponents with equal bar and speed, and
\* another tick readies two combatants with different bars
C6_Witness ==
    LET recs == CurrentRecords
    IN  /\ \E i \in 1..Len(recs) - 2 :
               /\ recs[i].tick = recs[i + 2].tick
               /\ recs[i].bar = recs[i + 2].bar
               /\ recs[i].speed = recs[i + 2].speed
               /\ recs[i].char[1] = "P"
               /\ recs[i + 1].char[1] = "E"
               /\ recs[i + 2].char[1] = "E"
        /\ \E i \in 1..Len(recs) - 1 :
               /\ recs[i].tick = recs[i + 1].tick
               /\ recs[i].bar > recs[i + 1].bar

\* an attack after which updateTurnQueue has run
DefeatNotified ==
    /\ pc' = "awaiting"
    /\ pending' # pending
    /\ pending'.type = "splash" \/ \E h \in Hits(pending') : h.defeated

\* C8: updateTurnQueue leaves the action bar of every living combatant at
\* the value it had and leaves entries for exactly the living combatants.
C8_DefeatKeepsSurvivorBars ==
    [][ DefeatNotified =>
            /\ DOMAIN actionBars' =
                   {getCharId(Char(playerTeam', enemyTeam', r)) :
                       r \in {q \in Combatants : isAlive(Char(playerTeam', enemyTeam', q))}}
            /\ \A k \in DOMAIN actionBars' :
                   k \in DOMAIN actionBars /\ actionBars'[k] = actionBars[k] ]_vars

\* a combatant was just defeated while the survivors have consumed bars that
\* differ from one another
C8_Witness ==
    /\ pc = "awaiting"
    /\ \E h \in Hits(pending) : h.defeated
    /\ \E k \in DOMAIN actionBars : actionBars[k] < 0
    /\ \E k, m \in DOMAIN actionBars : actionBars[k] < actionBars[m]

\* C9: nextTurn takes exactly one threshold from the bar of the combatant at
\* the front, appends that front entry to the history, and changes no other
\* bar and no hp.
C9_NextTurnConsumesOneThreshold ==
    [][ Len(turnHistory') = Len(turnHistory) + 1 =>
            LET front == upcomingTurns[1]
                key   == getCharId(Fighter(front))
            IN  /\ turnHistory' = Append(turnHistory, front)
                /\ DOMAIN actionBars' = DOMAIN actionBars
                /\ \A k \in DOMAIN actionBars :
                       actionBars'[k] = IF k = key THEN actionBars[k] - 1000
                                        ELSE actionBars[k]
                /\ playerTeam' = playerTeam
                /\ enemyTeam' = enemyTeam ]_vars

\* nextTurn has been called at least twice and one combatant has had two
\* thresholds taken
C9_Witness ==
    /\ lastCall.op = "nextTurn"
    /\ Len(turnHistory) >= 2
    /\ \E k \in DOMAIN actionBars : actionBars[k] = -2000

\* C10 as stated: after createTurnQueue all bars are 0 and the buffer holds
\* exactly the 20 turns asked for.
C10_ExactlyTwentyTurns ==
    lastCall.op = "setupBattle" =>
        /\ \A k \in DOMAIN actionBars : actionBars[k] = 0
        /\ Len(upcomingTurns) = 20

\* C10 amended: after createTurnQueue all bars are 0, and whenever somebody
\* is alive the buffer holds at least the 20 turns asked for and fewer than
\* 20 plus the number of living combatants (the tick that produces the 20th
\* turn is appended whole).
C10_AtLeastTwentyTurns ==
    /\ lastCall.op = "setupBattle" =>
           /\ DOMAIN actionBars = {getCharId(Fighter(r)) : r \in Living}
           /\ \A k \in DOMAIN actionBars : actionBars[k] = 0
    /\ Living # {} =>
           /\ Len(upcomingTurns) >= 20
           /\ Len(upcomingTurns) < 20 + Cardinality(Living)

\* createTurnQueue has produced more than the 20 turns asked for
C10_Witness ==
    /\ lastCall.op = "setupBattle"
    /\ Len(upcomingTurns) > 20
    /\ \A k \in DOMAIN actionBars : actionBars[k] = 0

\* the combatant at place r after the step
FighterAfter(r) == Char(playerTeam', enemyTeam', r)

\* a processTurn call has just run an attack of the given type
AttackDone(type) ==
    /\ pc' = "awaiting"
    /\ pending' # pending
    /\ pending'.type = type

\* C11: a single attack of a living attacker on a living target leaves the
\* target with max(0, hp - attack x effectiveness(attack gene, first gene of
\* the target)), changes no other combatant, reports that damage and that
\* multiplier, and reports the defeat exactly if the target is now at 0.
C11_SingleAttackDamage ==
    [][ (AttackDone("single") /\ isAlive(Fighter(pending'.targets[1].target))) =>
            LET h          == pending'.targets[1]
                attacker   == Fighter(pending'.attacker)
                before     == Fighter(h.target)
                multiplier == getEffectiveness(pending'.attackGene,
                                               [genes |-> <<before.genes[1]>>])
                damage     == attacker.stats.attack * multiplier * 2
            IN  /\ Len(pending'.targets) = 1
                /\ isAlive(attacker)
                /\ FighterAfter(h.target) =
                       [before EXCEPT !.stats.hp = Max(0, before.stats.hp - damage)]
                /\ \A r \in Combatants \ {h.target} : FighterAfter(r) = Fighter(r)
                /\ h.damage = damage
                /\ h.effectiveness = multiplier
                /\ h.defeated <=> FighterAfter(h.target).stats.hp = 0 ]_vars

\* a single attack with a multiplier other than 1.0 has defeated its target
\* with damage to spare
C11_Witness ==
    /\ pc = "awaiting"
    /\ pending.type = "single"
    /\ \E h \in Hits(pending) :
           /\ h.defeated
           /\ h.effectiveness # 4
           /\ h.hpBefore > 0
           /\ h.damage > h.hpBefore
           /\ Fighter(h.target).stats.hp = 0

\* the places of the team opposite to the combatant at place a
Opposite(a) == IF a[1] = "P" THEN "E" ELSE "P"

\* C12: a splash attack lowers the hp of exactly the living members of the
\* team opposite to the attacker, at most 3 of them; the attacker, its own
\* team and the combatants already defeated stay as they are, and the result
\* lists each combatant that was hit once and nobody else.
C12_SplashHitsLivingOpponents ==
    [][ AttackDone("splash") =>
            LET a       == pending'.attacker
                targets == LivingOf(Opposite(a))
                listed  == {h.target : h \in Hits(pending')}
            IN  /\ listed = targets
                /\ Len(pending'.targets) = Cardinality(targets)
                /\ Cardinality(targets) <= 3
                /\ \A r \in targets : FighterAfter(r).stats.hp < Fighter(r).stats.hp
                /\ \A r \in Combatants \ targets : FighterAfter(r) = Fighter(r) ]_vars

\* a splash attack has struck the two opponents still alive and passed over
\* the one already defeated
C12_Witness ==
    /\ pc = "awaiting"
    /\ pending.type = "splash"
    /\ Len(pending.targets) = 2
    /\ \E r \in Defeated : r[1] = Opposite(pending.attacker) /\ r \notin {h.target : h \in Hits(pending)}

\* the hits of a splash attack with the given gene by an attacker of the
\* given attack (points) on three fresh defenders of the given genes
SplashOn(attack, attackGene, genes) ==
    LET attacker == [GameCharacter(<<genes, 0>>, genes, TRUE)
                        EXCEPT !.stats.attack = attack, !.isPlayer = "true"]
        defender == [GameCharacter(<<genes, 0>>, genes, TRUE) EXCEPT !.isPlayer = "false"]
        targets  == << <<"E", 1>>, <<"E", 2>>, <<"E", 3>> >>
    IN  SplashLoop(<<attacker>>, <<defender, defender, defender>>, <<"P", 1>>,
                   attackGene, targets, <<>>).hits

\* C13: every target of a splash attack loses min(hp, 0.5 x attack x
\* effectiveness(attack gene, first gene of the target)), the damage of the
\* hit being exactly half of what a single attack with that gene deals to
\* that target; attack 120 at effectiveness 1.25 gives 75 on each target.
C13_SplashHalvesDamage ==
    [][ AttackDone("splash") =>
            /\ \A h \in Hits(pending') :
                   LET attacker == Fighter(pending'.attacker)
                       before   == Fighter(h.target)
                       single   == calculateDamage(attacker, pending'.attackGene, before)
                       half     == attacker.stats.attack
                                      * getEffectiveness(pending'.attackGene, before)
                   IN  /\ 2 * h.damage = single
                       /\ h.damage = half
                       /\ before.stats.hp - FighterAfter(h.target).stats.hp
                              = Min(before.stats.hp, half)
            /\ \A h \in Range(SplashOn(120, "Red", <<"Yellow">>)) :
                   h.effectiveness = 5 /\ h.damage = Pt(75) ]_vars

\* a splash attack with a multiplier other than 1.0 has taken its full
\* damage from one target and the rest of the hp from another
C13_Witness ==
    /\ pc = "awaiting"
    /\ pending.type = "splash"
    /\ \E h \in Hits(pending) :
           /\ h.effectiveness # 4
           /\ h.damage < h.hpBefore
           /\ Fighter(h.target).stats.hp = h.hpBefore - h.damage
    /\ \E h \in Hits(pending) :
           /\ h.damage > h.hpBefore
           /\ Fighter(h.target).stats.hp = 0

\* the place of a gene on the wheel Red -> Orange -> ... -> Purple -> Red
WheelIndex(gene) == CHOOSE i \in 1..Len(GENES) : GENES[i] = gene

\* the multiplier (in quarters) the wheel gives: by the number of steps
\* forward from the attack gene to the defending gene
WheelReference(attackGene, defendingGene) ==
    IF attackGene = "Neutral" THEN 4
    ELSE LET forward == (WheelIndex(defendingGene) - WheelIndex(attackGene)) % Len(GENES)
         IN  CASE forward = 1 -> 6
               [] forward = 2 -> 5
               [] forward = Len(GENES) - 1 -> 2
               [] forward = Len(GENES) - 2 -> 3
               [] OTHER -> 4

\* for every attack gene (Neutral included) and every creature of the
\* roster, getEffectiveness is the multiplier of the wheel reference
RosterFollowsWheel ==
    \A attackGene \in Range(GENES) \cup {"Neutral"}, t \in Templates :
        LET e == getEffectiveness(attackGene, generateCharacters[t])
        IN  /\ e = WheelReference(attackGene, t[1])
            /\ e \in {2, 3, 4, 5, 6}
            /\ attackGene = t[1] => e = 4

\* C14: for every attack gene (Neutral included) and every defender of the
\* roster, getEffectiveness is the multiplier of the wheel reference for the
\* defender's first gene, one of 0.5, 0.75, 1.0, 1.25, 1.5; and every hit an
\* attack reports carries the wheel's multiplier.
C14_EffectivenessIsWheel ==
    /\ RosterFollowsWheel
    /\ pc = "awaiting" =>
           \A h \in Hits(pending) :
               h.effectiveness =
                   WheelReference(pending.attackGene, Fighter(h.target).genes[1])

\* an attack across the seam of the wheel: Purple has struck a defender
\* whose first gene is Red at 1.5
C14_Witness ==
    /\ pc = "awaiting"
    /\ pending.attackGene = "Purple"
    /\ \E h \in Hits(pending) :
           Fighter(h.target).genes[1] = "Red" /\ h.effectiveness = 6

\* every pair of roster characters with the same first gene
SameFirstGene ==
    {p \in Range(generateCharacters) \X Range(generateCharacters) :
        p[1].genes[1] = p[2].genes[1]}

\* for every attack gene and attacker, two defenders with the same first
\* gene get the same multiplier and the same damage
FirstGeneDecides ==
    \A attackGene \in Range(GENES) \cup {"Neutral"}, p \in SameFirstGene :
        /\ getEffectiveness(attackGene, p[1]) = getEffectiveness(attackGene, p[2])
        /\ \A a \in Templates :
               calculateDamage(generateCharacters[a], attackGene, p[1])
                   = calculateDamage(generateCharacters[a], attackGene, p[2])

\* C15: defense uses the first gene of the defender only: any two defenders
\* with the same first gene, whatever their second gene or none, get the
\* same multiplier and the same damage from every attack; and every hit an
\* attack reports is the hit the single-gene creature of the target's first
\* gene would have taken.
C15_DefenseUsesFirstGene ==
    /\ FirstGeneDecides
    /\ pc = "awaiting" =>
           \A h \in Hits(pending) :
               LET first == generateCharacters[<<Fighter(h.target).genes[1]>>]
                   a     == Fighter(pending.attacker)
                   scale == IF pending.type = "splash" THEN 2 ELSE 1
               IN  /\ h.effectiveness = getEffectiveness(pending.attackGene, first)
                   /\ h.damage * scale = calculateDamage(a, pending.attackGene, first)

\* a defender with two genes has been struck at a multiplier other than 1.0
C15_Witness ==
    /\ pc = "awaiting"
    /\ \E h \in Hits(pending) :
           /\ Len(Fighter(h.target).genes) = 2
           /\ h.effectiveness # 4

\* an amount held in eighths of a point is a whole number of points
IsWhole(eighths) == eighths % Pt(1) = 0

\* the five multipliers, in quarters
Multipliers == {2, 3, 4, 5, 6}

\* the creatures whose attack options include a splash
SplashOwners ==
    {t \in Templates :
        \E o \in Range(getAttackGenes(generateCharacters[t])) : o.type = "splash"}

\* for every creature of the stat table attack x m is a whole number for
\* each multiplier m, and 0.5 x attack x m too for every creature with a
\* splash attack
TableDamageIsWhole ==
    /\ \A t \in Templates, m \in Multipliers :
           IsWhole(generateStats(t).attack * m * 2)
    /\ \A t \in SplashOwners, m \in Multipliers :
           IsWhole((generateStats(t).attack * m * 2 * SPLASH_DAMAGE_MULTIPLIER) \div 2)

\* C16: for every creature of the stat table attack x m is a whole number
\* for each of the five multipliers m, and 0.5 x attack x m too for every
\* creature with a splash attack; every damage reported and every hp of a
\* reachable state is a whole number.
C16_DamageIsWhole ==
    /\ TableDamageIsWhole
    /\ \A r \in Combatants :
           IsWhole(Fighter(r).stats.hp) /\ IsWhole(Fighter(r).stats.maxHp)
    /\ \A h \in Hits(pending) : IsWhole(h.damage)

\* a splash attack at 0.75 or 1.25 has taken its damage from a target that
\* survives it
C16_Witness ==
    /\ pc = "awaiting"
    /\ pending.type = "splash"
    /\ \E h \in Hits(pending) :
           /\ h.effectiveness \in {3, 5}
           /\ Fighter(h.target).stats.hp = h.hpBefore - h.damage
           /\ Fighter(h.target).stats.hp > 0

\* an attack option
Option(gene, type) == [gene |-> gene, type |-> type]

\* the two options of every creature of the roster, by its genes
RosterOptions ==
    \A t \in Templates :
        LET opts == getAttackGenes(generateCharacters[t])
            g    == generateCharacters[t].genes
        IN  /\ Len(opts) = 2
            /\ Len(g) = 1 =>
                   opts = << Option(g[1], "single"), Option("Neutral", "single") >>
            /\ (Len(g) = 2 /\ g[1] = g[2]) =>
                   opts = << Option(g[1], "single"), Option(g[1], "splash") >>
            /\ (Len(g) = 2 /\ g[1] # g[2]) =>
                   opts = << Option(g[1], "single"), Option(g[2], "single") >>
            /\ (\E o \in Range(opts) : o.type = "splash") <=>
                   (Len(g) = 2 /\ g[1] = g[2])
            /\ (\E o \in Range(opts) : o.gene = "Neutral") <=> Len(g) = 1

\* C17: getAttackGenes gives exactly two options fixed by the genes: a single
\* gene g gives single g and single Neutral; two equal genes g, g give single
\* g and splash g; two different genes g1, g2 give single g1 and single g2.
\* So only same-gene doubles have a splash and only single-gene creatures a
\* Neutral attack; and the attack a turn was played with is an option of its
\* attacker.
C17_TwoAttackOptions ==
    /\ RosterOptions
    /\ pc = "awaiting" =>
           LET g == Fighter(pending.attacker).genes
           IN  /\ pending.type = "splash" => (Len(g) = 2 /\ g[1] = g[2])
               /\ pending.attackGene = "Neutral" => Len(g) = 1
               /\ pending.attackGene # "Neutral" => pending.attackGene \in Range(g)

\* a single-gene creature has played its Neutral attack
C17_Witness ==
    /\ pc = "awaiting"
    /\ pending.type = "single"
    /\ pending.attackGene = "Neutral"
    /\ Len(Fighter(pending.attacker).genes) = 1


(***************************************************************************)
(* C18: the heuristic-best move                                            *)
(***************************************************************************)
\* the random picks of makeDecision that are tried against a list of
\* targets: the first option with the first target, the second with the last
Picks(targets) == { <<1, 1>>, <<2, Len(targets)>> }

\* the callback of the thinking timer has run in this step
AIFired == thinkingTimer # NoTimer /\ thinkingTimer' = NoTimer /\ pc' # "idle"

\* the move is one of the candidates and no candidate scores higher
IsMaximal(move, cands) ==
    \E i \in DOMAIN cands :
        /\ cands[i].attack = move.attack
        /\ cands[i].target = move.target
        /\ \A j \in DOMAIN cands : cands[j].score <= cands[i].score

\* every (single option, target) pair and every splash option is scored
\* once, with the score of evaluateSingleAttack or evaluateSplashAttack
ScoredOnce(pt, et, a, availableTargets, cands) ==
    LET attackObjs == getAttackGenes(Char(pt, et, a))
    IN  /\ \A k \in DOMAIN attackObjs :
               IF attackObjs[k].type = "splash"
               THEN Cardinality({ i \in DOMAIN cands :
                        /\ cands[i].attack = attackObjs[k]
                        /\ cands[i].score = evaluateSplashAttack(pt, et, a, attackObjs[k],
                                                                 availableTargets) }) = 1
               ELSE \A t \in DOMAIN availableTargets :
                        Cardinality({ i \in DOMAIN cands :
                            /\ cands[i].attack = attackObjs[k]
                            /\ cands[i].target = availableTargets[t]
                            /\ cands[i].score = evaluateSingleAttack(pt, et, a, attackObjs[k],
                                                    availableTargets[t], availableTargets) }) = 1
        /\ \A i \in DOMAIN cands : \E k \in DOMAIN attackObjs : cands[i].attack = attackObjs[k]

\* C18: whoever is to act and whatever the draw and the random picks, on
\* Extreme makeDecision returns the move of calculateBestMove, which is a
\* candidate no other candidate outscores, the candidates being every
\* (single option, target) pair and every splash option scored once; and a
\* decision the thinking timer delivers on Extreme is such a move for the
\* attacker and the targets it captured.
C18_ExtremePicksMaximum ==
    [][ /\ LET a       == getCurrentCharacter(upcomingTurns)
               targets == getAvailableTargets(playerTeam, enemyTeam, upcomingTurns)
               cands   == Candidates(playerTeam, enemyTeam, a, targets)
           IN  targets # <<>> =>
                   /\ ScoredOnce(playerTeam, enemyTeam, a, targets, cands)
                   /\ IsMaximal(calculateBestMove(playerTeam, enemyTeam, a, targets), cands)
                   /\ \A draw \in Draws, pick \in Picks(targets) :
                          LET d == makeDecision("extreme", playerTeam, enemyTeam, a, targets,
                                                draw, pick[1], pick[2])
                          IN  /\ d.success /\ d.wasSmartMove
                              /\ IsMaximal(d, cands)
        /\ (AIFired /\ difficulty = "extreme") =>
               /\ aiResult'.success /\ aiResult'.wasSmartMove
               /\ IsMaximal(aiResult', Candidates(playerTeam, enemyTeam,
                                                  thinkingTimer.attacker, thinkingTimer.targets))
      ]_vars

\* an Extreme decision was delivered and is being carried out, and it is
\* not the first move that was scored
C18_Witness ==
    /\ pc = "awaiting"
    /\ aiResult.success /\ aiResult.wasSmartMove /\ aiResult.difficulty = "extreme"
    /\ pending.attackGene = aiResult.attack.gene
    /\ aiResult.target # <<"P", 1>>

(***************************************************************************)
(* C19: the draw against smartMoveChance                                   *)
(***************************************************************************)
\* the draws, in hundredths, for which a tier is said to take the heuristic
\* branch
TakesHeuristic(tier, draw) ==
    CASE tier = "easy"    -> FALSE
      [] tier = "normal"  -> draw < 50
      [] tier = "hard"    -> draw < 80
      [] tier = "extreme" -> TRUE

\* C19: whoever is to act, for each tier and each draw makeDecision reports
\* wasSmartMove exactly when the draw is below the tier's chance (never on
\* Easy, always on Extreme, below 0.5 on Normal, below 0.8 on Hard); it then
\* returns the move of calculateBestMove, and otherwise the randomly picked
\* option and target.  A decision the thinking timer delivered obeys the
\* same rule for the draw it was made with.
C19_SmartMoveBelowChance ==
    /\ LET a       == getCurrentCharacter(upcomingTurns)
           targets == getAvailableTargets(playerTeam, enemyTeam, upcomingTurns)
           best    == calculateBestMove(playerTeam, enemyTeam, a, targets)
       IN  targets # <<>> =>
               \A tier \in DOMAIN AI_DIFFICULTY, draw \in Draws, pick \in Picks(targets) :
                   LET d == makeDecision(tier, playerTeam, enemyTeam, a, targets,
                                         draw, pick[1], pick[2])
                   IN  /\ d.success
                       /\ d.difficulty = tier
                       /\ d.wasSmartMove <=> TakesHeuristic(tier, draw)
                       /\ IF TakesHeuristic(tier, draw)
                          THEN d.attack = best.attack /\ d.target = best.target
                          ELSE /\ d.attack = getAttackGenes(Char(playerTeam, enemyTeam, a))[pick[1]]
                               /\ d.target = targets[pick[2]]
    /\ aiResult.success =>
           (aiResult.wasSmartMove <=> TakesHeuristic(aiResult.difficulty, aiResult.draw))

\* an Easy decision made with the lowest draw was delivered as a random
\* move and is being carried out
C19_Witness ==
    /\ pc = "awaiting"
    /\ aiResult.success /\ ~aiResult.wasSmartMove
    /\ aiResult.difficulty = "easy" /\ aiResult.draw = 0
    /\ pending.attackGene = aiResult.attack.gene

(***************************************************************************)
(* C20: processAITurn with nobody to attack                                *)
(***************************************************************************)
\* BattleAI.processAITurn is called in this step
AICalled ==
    /\ pc = "idle" /\ thinkingTimer = NoTimer
    /\ pc' = "aiResolved" \/ thinkingTimer' # NoTimer

\* C20: a call of processAITurn made while the combatant to act has no
\* available targets resolves with a failure of reason no_targets, starts
\* no thinking timer, makes no decision and no call of processTurn, and
\* leaves the characters, the teams, the action bars, the queues, the
\* history, the phase and the processing flag as they were.
C20_NoTargetsFails ==
    [][ (AICalled /\ getAvailableTargets(playerTeam, enemyTeam, upcomingTurns) = <<>>) =>
            /\ pc' = "aiResolved"
            /\ ~aiResult'.success
            /\ aiResult'.reason = "no_targets"
            /\ aiResult'.attack = NoDecision.attack /\ aiResult'.target = NoTarget
            /\ thinkingTimer' = NoTimer
            /\ UNCHANGED <<characters, playerTeam, enemyTeam, actionBars, turnQueue,
                           upcomingTurns, turnHistory, battlePhase, isProcessingTurn,
                           attackButtonsDisabled, pending, lastCall, difficulty>>
      ]_vars

\* after the end of a battle the call was made for the combatant still at
\* the head of the queue and has resolved with the failure
C20_Witness ==
    /\ pc = "aiResolved"
    /\ aiResult.reason = "no_targets"
    /\ battlePhase = "ended"
    /\ getCurrentCharacter(upcomingTurns) # NoChar
    /\ Len(turnHistory) > 0

(***************************************************************************)
(* C21: a single attack without a target                                   *)
(***************************************************************************)
\* a processTurn call ends in this step without success
ProcessTurnFailed ==
    /\ lastCall' # lastCall
    /\ lastCall'.op = "processTurn"
    /\ ~lastCall'.success

\* C21: a processTurn call with a single-type attack and no target ends with
\* a failure result and not with an exception, changes no hp, action bar,
\* buffer, display queue or phase, and leaves the flag released.  (Such a
\* call is the only one that can end otherwise than with success,
\* 'already_processing' or 'invalid_attacker'.)
C21_MissingTargetRejected ==
    [][ (ProcessTurnFailed
           /\ lastCall'.reason \notin {"already_processing", "invalid_attacker"}) =>
            /\ lastCall'.reason # "threw"
            /\ ~isProcessingTurn'
            /\ BattleState' = BattleState ]_vars

(***************************************************************************)
(* C22: processTurn without a valid attacker                               *)
(***************************************************************************)
\* there is no current combatant, or the current combatant is not alive
NoValidAttacker ==
    LET cur == getCurrentCharacter(upcomingTurns)
    IN  IF cur = NoChar THEN TRUE ELSE ~isAlive(Fighter(cur))

\* C22: a processTurn call entered with the flag free while there is no
\* current combatant, or while the current combatant is not alive, returns
\* the failure 'invalid_attacker', changes no hp, action bar, buffer,
\* display queue or phase, and leaves the flag released.
C22_InvalidAttackerRejected ==
    [][ (lastCall' # lastCall /\ lastCall'.op = "processTurn"
           /\ ~isProcessingTurn /\ NoValidAttacker) =>
            /\ ~lastCall'.success
            /\ lastCall'.reason = "invalid_attacker"
            /\ BattleState' = BattleState
            /\ pending' = pending
            /\ ~isProcessingTurn' ]_vars

\* a call made on the empty queue of the setup phase was turned down
C22_Witness ==
    /\ lastCall.op = "processTurn"
    /\ lastCall.reason = "invalid_attacker"
    /\ upcomingTurns = <<>>
    /\ battlePhase = "setup"
    /\ ~isProcessingTurn

(***************************************************************************)
(* C23: setupBattle and the size of the roster                             *)
(***************************************************************************)
\* C23: setupBattle succeeds only with a roster of three; a call with a
\* roster of another size returns a failure and leaves the teams, the
\* action bars, the buffer, the display queue, the history and the phase
\* as they were.
C23_RosterOfThreeOnly ==
    [][ (lastCall' # lastCall /\ lastCall'.op = "setupBattle") =>
            IF lastCall'.success
            THEN Len(playerTeam') = TEAM_SIZE
            ELSE BattleState' = BattleState ]_vars

(***************************************************************************)
(* C24: timers that outlive a return to the team setup                     *)
(***************************************************************************)
\* a callback runs in this step that was scheduled before the last return
\* to the team setup, or by such a callback: a timer of the next AI turn, a
\* timer of the return after the end of a battle, or the thinking timer
\* such an AI turn started
StaleCallbackRuns ==
    \/ aiTurnTimers'.stale < aiTurnTimers.stale
    \/ endTimers'.stale < endTimers.stale
    \/ IF thinkingTimer = NoTimer THEN FALSE ELSE thinkingTimer.stale /\ AIFired

\* C24: a callback scheduled before a return to the team setup changes
\* nothing of the battle when it runs afterwards: it makes no processTurn
\* or nextTurn call, and hp, action bars, buffer, display queue, history,
\* phase and flag stay as they are, also in a battle started since.
C24_StaleTimersChangeNothing ==
    [][ StaleCallbackRuns =>
            /\ BattleState' = BattleState
            /\ isProcessingTurn' = isProcessingTurn
            /\ pending' = pending ]_vars

\* C25: in the turn flows of BattleControls a processTurn call that returned
\* success without ending the battle is followed by nextTurn before anything
\* else happens, so before any other processTurn call proceeds; nextTurn is
\* called only then, once, and never after a call that ended the battle
TurnResolved ==
    /\ lastCall.op = "processTurn"
    /\ lastCall.success
    /\ ~lastCall.battleEnded

\* nextTurn moves the combatant that acted to the turn history
NextTurnRuns == Len(turnHistory') > Len(turnHistory)

C25_ResolveThenAdvance ==
    [][ /\ (pc = "resolved") = TurnResolved
        /\ TurnResolved =>
               /\ lastCall'.op = "nextTurn"
               /\ Len(turnHistory') = Len(turnHistory) + 1
               /\ BattleState'[1] = playerTeam /\ BattleState'[2] = enemyTeam
        /\ NextTurnRuns => TurnResolved
        /\ pc' = "awaiting" => ~TurnResolved ]_vars

\* C25 witness: the queue was advanced after a player's and after an enemy's
\* attack, and a later attack ended the battle with no advance after it
C25_Witness ==
    /\ battlePhase = "ended"
    /\ lastCall.op = "processTurn" /\ lastCall.success /\ lastCall.battleEnded
    /\ pc = "idle"
    /\ \E i, j \in 1..Len(turnHistory) :
           turnHistory[i][1] = "P" /\ turnHistory[j][1] = "E"

\* C26: no battle operation (setupBattle, processTurn, nextTurn, reset or an
\* AI turn) changes a record of game.characters: hp, maxHp, attack, speed, id
\* and the unlocked flag stay as they are, and so does the isPlayer mark;
\* only a step that leaves the battle alone changes the roster
BattleStep ==
    \/ BattleState' # BattleState
    \/ lastCall' # lastCall
    \/ isProcessingTurn' # isProcessingTurn
    \/ pc' # pc

C26_RosterUntouched ==
    [][ /\ BattleStep => characters' = characters
        /\ \A t \in Templates :
               /\ characters'[t].stats = characters[t].stats
               /\ characters'[t].id = characters[t].id ]_vars

\* C26 witness: a combatant cloned from a roster record was defeated and the
\* queue advanced, while the record still has its full hp
C26_Witness ==
    /\ turnHistory # <<>>
    /\ \E r \in Defeated :
           /\ r[1] = "P"
           /\ characters[Fighter(r).id[1]].stats.hp = Fighter(r).stats.maxHp
           /\ Fighter(r).stats.hp = 0

\* C27: after setupBattle the combatants have pairwise distinct scheduler
\* identities, also when generateEnemyTeam draws the same template twice, so
\* that every living combatant has an action bar of its own
C27_DistinctIdentities ==
    battlePhase = "battle" =>
        /\ \A r, q \in Combatants :
               r # q => getCharId(Fighter(r)) # getCharId(Fighter(q))
        /\ \A r \in Living : getCharId(Fighter(r)) \in DOMAIN actionBars

\* C28: the phase moves from setup to battle by setupBattle, from battle to
\* ended by a processTurn that leaves a team without living members, and to
\* setup by reset, and in no other way; once the phase is ended, a call other
\* than reset leaves the phase and the winner as they are, and a processTurn
\* that returns reports the end with that winner
WinnerNow == checkBattleEnd(playerTeam, enemyTeam).winner

C29_ConsumptionKeepsExcess ==
    LET recs == CurrentRecords
    IN  \A i \in 1..Len(recs) :
            /\ recs[i].bar >= 1000
            /\ recs[i].after = recs[i].bar - 1000
            /\ recs[i].after >= 0
            /\ recs[i].after < 2 * 1000

\* C29 witness: in a simulation that starts from bars nextTurn has taken
\* thresholds from, a combatant became ready above the threshold and kept
\* the excess, and another one became ready exactly at the threshold
C29_Witness ==
    LET recs == CurrentRecords
    IN  /\ \E k \in DOMAIN actionBars : actionBars[k] < 0
        /\ \E i \in 1..Len(recs) : recs[i].bar > 1000 /\ recs[i].after > 0
        /\ \E i \in 1..Len(recs) : recs[i].bar = 1000 /\ recs[i].after = 0

\* C30: whoever is to act, for every tier, draw and pair of random picks the
\* decision makeDecision returns for a non-empty list of available targets
\* is legal: its attack is one of the attacker's attack options and its
\* target is one of the available targets, a living member of the other
\* team; and a decision the thinking timer delivers is legal for the
\* attacker and the targets the timer captured.
LegalDecision(d, a, targets) ==
    /\ d.success
    /\ d.attack \in Range(getAttackGenes(Fighter(a)))
    /\ d.target \in Range(targets)
    /\ d.target[1] # a[1]
    /\ isAlive(Fighter(d.target))

C30_DecisionIsLegal ==
    [][ /\ LET a       == getCurrentCharacter(upcomingTurns)
               targets == getAvailableTargets(playerTeam, enemyTeam, upcomingTurns)
           IN  targets # <<>> =>
                   \A tier \in DOMAIN AI_DIFFICULTY, draw \in {0, 99},
                      attackPick \in 1..2, targetPick \in 1..Len(targets) :
                       LegalDecision(makeDecision(tier, playerTeam, enemyTeam, a, targets,
                                                  draw, attackPick, targetPick),
                                     a, targets)
        /\ AIFired =>
               LegalDecision(aiResult', thinkingTimer.attacker, thinkingTimer.targets)
      ]_vars

\* C30 witness: a random decision for the second attack option and the last
\* of three available targets was delivered and is being carried out
C30_Witness ==
    /\ pc = "awaiting"
    /\ aiResult.success /\ ~aiResult.wasSmartMove
    /\ aiResult.target = <<"P", 3>>
    /\ pending.attackGene = aiResult.attack.gene
    /\ pending.attacker[1] = "E"
    /\ aiResult.attack = getAttackGenes(Fighter(pending.attacker))[2]

\* two buffers agree on every position up to the shorter of their lengths
AgreeOnPrefix(s, t) ==
    \A i \in 1..Min(Len(s), Len(t)) : s[i] = t[i]

\* the buffer without the entries of the combatants defeated in teams pt, et
Survivors(turns, pt, et) == SelectSeq(turns, LAMBDA r : isAlive(Char(pt, et, r)))

\* an attack that defeated a combatant, so that updateTurnQueue has run
DefeatHappened ==
    /\ pc' = "awaiting"
    /\ pending' # pending
    /\ \E h \in Hits(pending') : h.defeated

\* C31: when a defeat triggers updateTurnQueue, the recomputed buffer and
\* the previous buffer without the entries of the defeated agree on every
\* position up to the shorter of their lengths
C31_DefeatKeepsOrder ==
    [][ DefeatHappened =>
            AgreeOnPrefix(upcomingTurns',
                          Survivors(upcomingTurns, playerTeam', enemyTeam')) ]_vars

\* C31 witness: a defeat in a battle that goes on, after the queue was
\* advanced at least twice; the recomputed buffer has turns of both teams
C31_Witness ==
    /\ pc = "awaiting"
    /\ \E h \in Hits(pending) : h.defeated
    /\ Len(turnHistory) >= 2
    /\ ~checkBattleEnd(playerTeam, enemyTeam).ended
    /\ \E i, j \in 1..Len(upcomingTurns) :
           upcomingTurns[i][1] = "P" /\ upcomingTurns[j][1] = "E"

\* the buffer createTurnQueue computes for the teams
Precomputed(pt, et) == createTurnQueue(pt, et).upcomingTurns

\* C32: whenever nextTurn advances the queue, the new buffer and the old
\* buffer without its first entry agree on every position up to the shorter
\* of their lengths; and as long as nobody is defeated, the combatants that
\* have acted followed by the buffer are the sequence createTurnQueue
\* computed
C32_AdvanceKeepsOrder ==
    [][ Len(turnHistory') > Len(turnHistory) =>
            /\ AgreeOnPrefix(upcomingTurns', Tail(upcomingTurns))
            /\ (\A r \in Range(AllRefs(playerTeam', enemyTeam')) :
                    isAlive(Char(playerTeam', enemyTeam', r)))
               => AgreeOnPrefix(turnHistory' \o upcomingTurns',
                                Precomputed(playerTeam', enemyTeam')) ]_vars

\* C32 witness: the queue was advanced three times with nobody defeated, the
\* buffer was recomputed, and combatants of both teams have acted
C32_Witness ==
    /\ lastCall.op = "nextTurn"
    /\ Len(turnHistory) >= 3
    /\ Defeated = {}
    /\ \E i, j \in 1..Len(turnHistory) :
           turnHistory[i][1] = "P" /\ turnHistory[j][1] = "E"
    /\ upcomingTurns = calculateUpcomingTurns(playerTeam, enemyTeam, actionBars, TurnsAhead)

\* C33: while a processTurn call that resolved an attack waits to return,
\* and when it has returned success, the combatant at the front of the queue
\* is the combatant that attacked
C33_AttackerStaysInFront ==
    pc \in {"awaiting", "resolved"} =>
        /\ upcomingTurns # <<>>
        /\ upcomingTurns[1] =
               (IF pc = "awaiting" THEN pending.attacker
                ELSE lastCall.turnResults.attacker)

\* C33 witness: an attack that defeated its target has returned success and
\* the queue, recomputed and advanced before, still has the attacker in front
C33_Witness ==
    /\ pc = "resolved"
    /\ Len(turnHistory) >= 1
    /\ \E h \in Hits(lastCall.turnResults) : h.defeated
    /\ upcomingTurns[1] = lastCall.turnResults.attacker

\* the number of turns of combatant r among the first n entries of a buffer
TurnCount(turns, r, n) == Cardinality({i \in 1..n : turns[i] = r})

\* in every prefix of the buffer createTurnQueue computes for the teams, a
\* faster living combatant has at least as many turns as a slower one
FasterStaysAhead(pt, et) ==
    LET turns  == Precomputed(pt, et)
        living == Range(LivingRefs(pt, et))
    IN  \A a, b \in living :
            Char(pt, et, a).stats.speed > Char(pt, et, b).stats.speed =>
                \A n \in 1..Len(turns) : TurnCount(turns, a, n) >= TurnCount(turns, b, n)

\* every creature of the stat table against every other, one on each side
TableDuels ==
    { << ClonePlayerTeam(generateCharacters, <<x>>),
         <<EnemyFrom(generateCharacters[y], 0)>> >> : x, y \in Templates }

TableDuelsKeepFasterAhead ==
    \A duel \in TableDuels : FasterStaysAhead(duel[1], duel[2])

\* C34: in the buffer createTurnQueue computes from bars at 0, for any two
\* living combatants a and b with speed(a) > speed(b) every prefix holds at
\* least as many turns of a as of b; for the living of every reachable
\* battle and for every pair of creatures of the stat table
C34_FasterNeverBehind ==
    /\ TableDuelsKeepFasterAhead
    /\ battlePhase = "battle" => FasterStaysAhead(playerTeam, enemyTeam)

\* C34 witness: createTurnQueue has just computed a buffer in which a tick
\* readied two combatants with equal bars and the slower one went first
C34_Witness ==
    LET recs == CurrentRecords
    IN  /\ lastCall.op = "setupBattle"
        /\ upcomingTurns = Precomputed(playerTeam, enemyTeam)
        /\ \E i, j \in 1..Len(recs) :
               /\ i < j
               /\ recs[i].tick = recs[j].tick
               /\ recs[i].bar = recs[j].bar
               /\ recs[i].speed < recs[j].speed

\* the least damage (in eighths of a point) a creature of the stat table
\* deals: a single attack, or the halved splash, against any creature
TableDamageAtLeastOne ==
    \A x, y \in Templates :
        LET attacker == generateCharacters[x]
            defender == generateCharacters[y]
        IN  \A k \in 1..2 :
                LET attackObj == getAttackGenes(attacker)[k]
                    single    == calculateDamage(attacker, attackObj.gene, defender)
                IN  IF attackObj.type = "splash"
                    THEN (single * SPLASH_DAMAGE_MULTIPLIER) \div 2 >= Pt(1)
                    ELSE single >= Pt(1)

\* a resolved attack: every target that was alive has lost at least one
\* point of hp
HitsLowerHp ==
    (pc' = "awaiting" /\ pending' # pending) =>
        \A h \in Hits(pending') :
            h.hpBefore > 0 =>
                Char(playerTeam', enemyTeam', h.target).stats.hp <= h.hpBefore - Pt(1)

\* no combatant gains hp while the battle goes on
NoHpGain ==
    (battlePhase = "battle" /\ battlePhase' # "setup") =>
        \A r \in Combatants :
            Char(playerTeam', enemyTeam', r).stats.hp <= Fighter(r).stats.hp

\* C35: every resolved attack of a creature of the stat table lowers the hp
\* of each living target by at least 1, no hp goes up during a battle, and a
\* battle in which turns keep being processed (a legal attack on a living
\* target, then nextTurn) reaches the phase ended
C35_BattleEnds ==
    /\ [][TableDamageAtLeastOne /\ HitsLowerHp /\ NoHpGain]_vars
    /\ (battlePhase = "battle") ~> (battlePhase = "ended")

\* C35 witness: a battle longer than twenty turns has ended
C35_Witness ==
    /\ battlePhase = "ended"
    /\ Len(turnHistory) > 20
    /\ lastCall.op = "processTurn" /\ lastCall.battleEnded

\* the living combatants whose id has an entry in actionBars: those that the
\* tick loop of calculateUpcomingTurns moves
Barred == {r \in Living : getCharId(Fighter(r)) \in DOMAIN actionBars}

\* the number of iterations after which combatant r alone has filled its
\* bar numberOfTurns times
TicksFor(r, numberOfTurns) ==
    (numberOfTurns * ACTION_THRESHOLD - actionBars[getCharId(Fighter(r))]
        + Fighter(r).stats.speed - 1) \div Fighter(r).stats.speed

PlayerToChoose ==
    /\ pc = "idle"
    /\ battlePhase = "battle"
    /\ thinkingTimer = NoTimer
    /\ ~TurnInProgress
    /\ getCurrentCharacter(upcomingTurns) # NoChar
    /\ ~EnemyToAct

\* C37: whenever a player combatant is to act in a running battle and no
\* turn is in progress, attackButtonsDisabled is false, so that
\* selectAttackGene accepts a choice
C37_SelectionEnabled == PlayerToChoose => ~attackButtonsDisabled

\* C38: isProcessingTurn is false whenever no processTurn call is under way,
\* whichever way the last call ended
C38_FlagReleased == pc # "awaiting" => ~isProcessingTurn

\* the thinking timer fires and the processTurn call of onDecisionMade is
\* accepted
DecisionApplied == AIFired /\ pc' = "awaiting"

\* C39: whenever the decision callback's processTurn call is accepted, the
\* current combatant is the combatant captured before the thinking delay and
\* belongs to the enemy team, and the target of a single attack is a living
\* combatant of the player team
C39_DecisionForCapturedEnemy ==
    [][ DecisionApplied =>
            /\ getCurrentCharacter(upcomingTurns) = thinkingTimer.attacker
            /\ thinkingTimer.attacker[1] = "E"
            /\ aiResult'.attack.type = "single" =>
                   /\ aiResult'.target[1] = "P"
                   /\ isAlive(Fighter(aiResult'.target)) ]_vars

====
